---- MODULE Spec2Model ----
(***************************************************************************)
(* dabih-attachments: the scan-first conversion pipeline of POST /convert, *)
(* the file-type classifier, the dual-mode upload sink with its local      *)
(* ephemeral store, and the temp-file cleanup discipline (src/index.ts).   *)
(***************************************************************************)
EXTENDS Integers, Sequences, FiniteSets, TLC

(* ------------------------------ bounds --------------------------------- *)
\* number of POST /convert requests with unrestricted inputs (Spec)
NumRuns == 1
\* number of POST /convert requests to shared local destinations
\* (SpecShared, SpecStore)
NumShared == 2
\* last clock value (minutes) the model lets the clock reach
MaxTime == 7
\* number of distinct values Math.random() yields for a temp PDF name
NumTempNames == 2
\* number of cleanup passes over one tempFiles list (SpecCleanup)
MaxPasses == 2

\* the cap on simultaneously active document/image conversions the design
\* asks for
ConversionCap == 2

MaxRuns ==
  LET most == IF NumRuns > NumShared THEN NumRuns ELSE NumShared
  IN  IF most > ConversionCap + 1 THEN most ELSE ConversionCap + 1
Runs == 1..MaxRuns

(* ------------------------ file type classification --------------------- *)
\* A filename is a sequence of one-character strings.
FILE_TYPES ==
  [
    image |->
     {<<"j","p","g">>, <<"j","p","e","g">>, <<"p","n","g">>,
      <<"w","e","b","p">>, <<"g","i","f">>, <<"t","i","f","f">>,
      <<"t","i","f">>, <<"a","v","i","f">>, <<"h","e","i","c">>,
      <<"h","e","i","f">>, <<"s","v","g">>},
    document |->
     {<<"d","o","c">>, <<"d","o","c","x">>, <<"o","d","t">>, <<"r","t","f">>,
      <<"t","x","t">>, <<"x","l","s">>, <<"x","l","s","x">>, <<"o","d","s">>,
      <<"c","s","v">>, <<"p","p","t">>, <<"p","p","t","x">>, <<"o","d","p">>},
    video |->
     {<<"m","p","4">>, <<"a","v","i">>, <<"m","o","v">>, <<"m","k","v">>,
      <<"w","e","b","m">>, <<"f","l","v">>, <<"w","m","v">>, <<"m","4","v">>},
    audio |->
     {<<"m","p","3">>, <<"w","a","v">>, <<"o","g","g">>, <<"f","l","a","c">>,
      <<"m","4","a">>, <<"a","a","c">>, <<"w","m","a">>},
    archive |->
     {<<"z","i","p">>, <<"r","a","r">>, <<"7","z">>, <<"t","a","r">>,
      <<"g","z">>, <<"b","z","2">>},
    blocked |->
     {<<"e","x","e">>, <<"d","l","l">>, <<"b","a","t">>, <<"c","m","d">>,
      <<"c","o","m">>, <<"s","c","r">>, <<"p","i","f">>, <<"v","b","s">>,
      <<"j","s">>, <<"j","a","r">>, <<"a","p","p">>, <<"d","e","b">>,
      <<"r","p","m">>, <<"m","s","i">>, <<"s","h">>, <<"b","a","s","h">>,
      <<"p","s","1">>}
  ]

UpperToLower ==
  [A |-> "a", B |-> "b", C |-> "c", D |-> "d", E |-> "e", F |-> "f",
   G |-> "g", H |-> "h", I |-> "i", J |-> "j", K |-> "k", L |-> "l",
   M |-> "m", N |-> "n", O |-> "o", P |-> "p", Q |-> "q", R |-> "r",
   S |-> "s", T |-> "t", U |-> "u", V |-> "v", W |-> "w", X |-> "x",
   Y |-> "y", Z |-> "z"]

toLowerCase(s) ==
  [i \in DOMAIN s |-> IF s[i] \in DOMAIN UpperToLower THEN UpperToLower[s[i]] ELSE s[i]]

slice(s, from) ==
  IF from > Len(s) THEN <<>> ELSE SubSeq(s, from, Len(s))

\* path.extname for a name without '/': the text from the last '.', or ''
\* when there is no '.', when the only '.' is the first character, or when
\* the name is '..'.
extname(filename) ==
  LET dots == {i \in DOMAIN filename : filename[i] = "."}
      startDot == CHOOSE i \in dots : \A j \in dots : j <= i
  IN  IF dots = {} THEN <<>>
      ELSE IF startDot = 1 THEN <<>>
      ELSE IF filename[1] = "." /\ startDot = Len(filename) /\ startDot = 2 THEN <<>>
      ELSE SubSeq(filename, startDot, Len(filename))

\* getFileCategory without its first line, the check of the blocked set
getFileCategoryUnblocked(filename) ==
  LET ext == toLowerCase(slice(extname(filename), 2))
  IN  IF ext \in FILE_TYPES.image THEN "image"
      ELSE IF ext \in FILE_TYPES.document THEN "document"
      ELSE IF ext \in FILE_TYPES.video THEN "video"
      ELSE IF ext \in FILE_TYPES.audio THEN "audio"
      ELSE IF ext \in FILE_TYPES.archive THEN "archive"
      ELSE "unsupported"

\* the lookups of getFileCategory with the blocked set looked up last
categoryOfBlockedLast(types, ext) ==
  IF ext \in types.image THEN "image"
  ELSE IF ext \in types.document THEN "document"
  ELSE IF ext \in types.video THEN "video"
  ELSE IF ext \in types.audio THEN "audio"
  ELSE IF ext \in types.archive THEN "archive"
  ELSE IF ext \in types.blocked THEN "blocked"
  ELSE "unsupported"

\* lines 50-57: the lookups of getFileCategory, in their order, in a table
\* `types` of extension sets
categoryOf(types, ext) ==
  IF ext \in types.blocked THEN "blocked"
  ELSE IF ext \in types.image THEN "image"
  ELSE IF ext \in types.document THEN "document"
  ELSE IF ext \in types.video THEN "video"
  ELSE IF ext \in types.audio THEN "audio"
  ELSE IF ext \in types.archive THEN "archive"
  ELSE "unsupported"

\* line 48: path.extname(filename).slice(1).toLowerCase()
extensionOf(filename) == toLowerCase(slice(extname(filename), 2))

getFileCategory(filename) == categoryOf(FILE_TYPES, extensionOf(filename))

\* the filenames requests are drawn from
TestTxt == <<"t","e","s","t",".","t","x","t">>
PicPng == <<"p","i","c",".","p","n","g">>
DataZip == <<"d","a","t","a",".","z","i","p">>
BlockedExe == <<"b","l","o","c","k","e","d",".","e","x","e">>
FileNames == {TestTxt, PicPng, DataZip, BlockedExe}

(* ------------------------------- requests ------------------------------ *)
\* A destination string is modelled by its split('/') segments:
\* '/convert/original/a' is <<"", "convert", "original", "a">>.
NoUrl == <<>>
LocalOriginalA == <<"", "convert", "original", "a">>
LocalPreviewA == <<"", "convert", "preview", "a">>
LocalPreviewB == <<"", "convert", "preview", "b">>
RemoteOriginal == <<"https:", "", "s3", "o">>
RemotePreview == <<"https:", "", "s3", "p">>
OriginalUrls == {NoUrl, LocalOriginalA, RemoteOriginal}
PreviewUrls == {NoUrl, LocalPreviewB, RemotePreview}

\* multer's file record (req.file), or NoFile when the request has no file part
NoFile == [present |-> FALSE, originalname |-> <<>>, mimetype |-> ""]
MimeOf(name) ==
  IF name = TestTxt THEN "text/plain"
  ELSE IF name = PicPng THEN "image/png"
  ELSE IF name = DataZip THEN "application/zip"
  ELSE "application/octet-stream"
FileOf(name) == [present |-> TRUE, originalname |-> name, mimetype |-> MimeOf(name)]
NoRequest == [file |-> NoFile, originalUrl |-> NoUrl, previewUrl |-> NoUrl]

\* !originalUrl: undefined or the empty string
Missing(url) == url = <<>> \/ url = <<"">>

(* ------------------------------ file system ---------------------------- *)
\* The disk is a function from the paths that exist to their content.
\* A path is <<directory, name>>; a content is <<kind, run>>.
UploadNames == <<"u1", "u2", "u3", "u4">>
UploadPath(r) == <<"/tmp/uploads", UploadNames[r]>>
TempNameList == <<"t1", "t2", "t3">>
TempNames == {TempNameList[i] : i \in 1..NumTempNames}
PdfPath(tempname) == <<"/tmp/libreoffice", tempname>>
LocalPath(filename) == <<"/tmp/convert-test", filename>>

existsSync(d, p) == p \in DOMAIN d
WriteFile(d, p, c) == [q \in (DOMAIN d) \cup {p} |-> IF q = p THEN c ELSE d[q]]
RemoveFile(d, p) == [q \in (DOMAIN d) \ {p} |-> d[q]]

\* unlinkSync: removes the path, throws (ENOENT) when it does not exist
unlinkSync(d, p) ==
  [threw |-> ~existsSync(d, p), disk |-> RemoveFile(d, p)]

\* a copy that reports success without writing the destination
copyFileSyncNotCopying(d, src, dst) ==
  IF existsSync(d, src)
  THEN [threw |-> FALSE, disk |-> d]
  ELSE [threw |-> TRUE, disk |-> d]

\* a rename in place of the copy: the source is gone afterwards
copyFileSyncMoving(d, src, dst) ==
  IF existsSync(d, src)
  THEN [threw |-> FALSE, disk |-> RemoveFile(WriteFile(d, dst, d[src]), src)]
  ELSE [threw |-> TRUE, disk |-> d]

\* copyFileSync: throws when the source does not exist, else (over)writes dst
copyFileSync(d, src, dst) ==
  IF existsSync(d, src)
  THEN [threw |-> FALSE, disk |-> WriteFile(d, dst, d[src])]
  ELSE [threw |-> TRUE, disk |-> d]

\* unlinkSync(file) without the try/catch around it
unlinkUncaught(d, p) ==
  LET u == unlinkSync(d, p)
  IN  [raised |-> u.threw, removed |-> ~u.threw, disk |-> u.disk]

\* try { unlinkSync(file); } catch (e) {}
tryUnlink(d, p) ==
  LET u == unlinkSync(d, p)
  IN  [raised |-> FALSE, removed |-> ~u.threw, disk |-> u.disk]

\* tempFiles.forEach(file => { try { unlinkSync(file); } catch (e) {} })
\* raised: an exception escaped the loop; removed: the paths unlinked.
RECURSIVE cleanupFrom(_, _, _, _)
cleanupFrom(d, files, i, removed) ==
  IF i > Len(files) THEN [raised |-> FALSE, removed |-> removed, disk |-> d]
  ELSE LET u == tryUnlink(d, files[i])
       IN  IF u.raised THEN [raised |-> TRUE, removed |-> removed, disk |-> u.disk]
           ELSE cleanupFrom(u.disk, files, i + 1,
                            IF u.removed THEN Append(removed, files[i]) ELSE removed)

\* a cleanup that leaves the first registered path, the uploaded file
cleanupSkippingFirst(d, files) == cleanupFrom(d, files, 2, <<>>)

\* a cleanup that unlinks the uploaded file and leaves what was registered
\* after it
cleanupFirstOnly(d, files) ==
  IF files = <<>> THEN [raised |-> FALSE, removed |-> <<>>, disk |-> d]
  ELSE cleanupFrom(d, <<files[1]>>, 1, <<>>)

\* a cleanup that unlinks nothing
cleanupNothing(d, files) == [raised |-> FALSE, removed |-> <<>>, disk |-> d]

cleanup(d, files) == cleanupFrom(d, files, 1, <<>>)

(* -------------------------------- scanner ------------------------------ *)
\* The exit of `clamdscan` as execSync reports it: 0 returns normally, any
\* other outcome throws an error whose status is the exit code, or null
\* (NullStatus) when the process was killed at the 30 s timeout.
NullStatus == -1
ScanExits == {0, 1, 2, NullStatus}

NoScan == [set |-> FALSE, clean |-> FALSE, result |-> ""]

\* scanFile with a catch block that reports every failed scan as a detection
scanFileErrorAsInfected(exit) ==
  IF exit = 0 THEN [threw |-> FALSE, clean |-> TRUE, result |-> "OK"]
  ELSE [threw |-> FALSE, clean |-> FALSE, result |-> "FOUND"]

\* scanFile with a catch block that swallows the detection exit
scanFileInfectedAsClean(exit) ==
  IF exit = 0 \/ exit = 1 THEN [threw |-> FALSE, clean |-> TRUE, result |-> "OK"]
  ELSE [threw |-> TRUE, clean |-> FALSE, result |-> "Antivirus scan failed"]

\* scanFile with a catch block that takes the kill at the timeout for a pass
scanFileTimeoutAsClean(exit) ==
  IF exit = 0 \/ exit = NullStatus
  THEN [threw |-> FALSE, clean |-> TRUE, result |-> "OK"]
  ELSE IF exit = 1 THEN [threw |-> FALSE, clean |-> FALSE, result |-> "FOUND"]
  ELSE [threw |-> TRUE, clean |-> FALSE, result |-> "Antivirus scan failed"]

\* scanFile: {clean: true} on a normal return, {clean: false} on exit
\* status 1, otherwise it throws.
scanFile(exit) ==
  IF exit = 0 THEN [threw |-> FALSE, clean |-> TRUE, result |-> "OK"]
  ELSE IF exit = 1 THEN [threw |-> FALSE, clean |-> FALSE, result |-> "FOUND"]
  ELSE [threw |-> TRUE, clean |-> FALSE, result |-> "Antivirus scan failed"]

(* --------------------------- local ephemeral store --------------------- *)
\* 5 * 60 * 1000 ms, in minutes
TTL == 5

\* a test for '/convert/' anywhere in the destination
containsConvert(url) ==
  \E i \in DOMAIN url : i > 1 /\ i < Len(url) /\ url[i] = "convert"

startsWithConvert(url) == Len(url) >= 3 /\ url[1] = "" /\ url[2] = "convert"
pop(url) == url[Len(url)]

\* the local branch of handleFileUpload at clock value t, on behalf of `by`
storeLocally(d, files, tm, url, filePath, contentType, t, by) ==
  LET filename == pop(url)
      localPath == LocalPath(filename)
      cp == copyFileSync(d, filePath, localPath)
  IN  IF cp.threw
      THEN [threw |-> TRUE, disk |-> d, localFiles |-> files, timers |-> tm]
      ELSE [threw |-> FALSE,
            disk |-> cp.disk,
            localFiles |-> [k \in (DOMAIN files) \cup {filename} |->
                              IF k = filename
                              THEN [path |-> localPath, contentType |-> contentType,
                                    expiresAt |-> t + TTL]
                              ELSE files[k]],
            timers |-> tm \cup {[filename |-> filename, localPath |-> localPath,
                                 due |-> t + TTL, by |-> by]}]

\* an eviction that unlinks the stored file and leaves the entry
evictFileOnly(d, files, filename, p) ==
  [disk |-> RemoveFile(d, p), localFiles |-> files]

\* an eviction that deletes the entry and leaves the stored file
evictKeepingFile(d, files, filename, p) ==
  [disk |-> d, localFiles |-> [k \in (DOMAIN files) \ {filename} |-> files[k]]]

\* try { unlinkSync(path); localFiles.delete(filename); } catch (e) {}
evict(d, files, filename, p) ==
  LET u == unlinkSync(d, p)
  IN  IF u.threw THEN [disk |-> d, localFiles |-> files]
      ELSE [disk |-> u.disk,
            localFiles |-> [k \in (DOMAIN files) \ {filename} |-> files[k]]]

\* GET that serves an entry without looking at its expiry
getFileIgnoringExpiry(d, files, type, filename, t) ==
  IF type # "original" /\ type # "preview" THEN [code |-> 400]
  ELSE IF filename \notin DOMAIN files THEN [code |-> 404]
  ELSE IF ~existsSync(d, files[filename].path) THEN [code |-> 500]
  ELSE [code |-> 200, contentType |-> files[filename].contentType,
        body |-> d[files[filename].path]]

\* GET /convert/:type/:filename evaluated at clock value t
getFile(d, files, type, filename, t) ==
  IF type # "original" /\ type # "preview" THEN [code |-> 400]
  ELSE IF filename \notin DOMAIN files THEN [code |-> 404]
  ELSE IF t > files[filename].expiresAt THEN [code |-> 404]
  ELSE IF ~existsSync(d, files[filename].path) THEN [code |-> 500]
  ELSE [code |-> 200, contentType |-> files[filename].contentType,
        body |-> d[files[filename].path]]

\* a GET that renews the expiry of the entry it serves
afterGetRefreshing(d, files, type, filename, t) ==
  IF type # "original" /\ type # "preview" THEN [disk |-> d, localFiles |-> files]
  ELSE IF filename \notin DOMAIN files THEN [disk |-> d, localFiles |-> files]
  ELSE IF t > files[filename].expiresAt
  THEN evict(d, files, filename, files[filename].path)
  ELSE [disk |-> d,
        localFiles |-> [files EXCEPT ![filename].expiresAt = t + TTL]]

\* what GET /convert/:type/:filename leaves of the store, lines 116-165:
\* only the expired branch (138-143) writes
afterGet(d, files, type, filename, t) ==
  IF type # "original" /\ type # "preview" THEN [disk |-> d, localFiles |-> files]
  ELSE IF filename \notin DOMAIN files THEN [disk |-> d, localFiles |-> files]
  ELSE IF t > files[filename].expiresAt
  THEN evict(d, files, filename, files[filename].path)
  ELSE [disk |-> d, localFiles |-> files]

(* ------------------------------ remote sink ---------------------------- *)
\* What the PUT of uploadWithPresignedUrl ends in: a 2xx status (the remote
\* stored the body), another status, or a transport error.
PutOutcomes == {"2xx", "5xx", "error"}

\* a response callback that resolves whatever the status code
putAcceptsAnyStatus(outcome) == outcome # "error"

\* new URL(presignedUrl) at line 392 throws unless the string is an absolute
\* URL; the request is sent over https or http (405)
isAbsoluteUrl(url) == Len(url) >= 3 /\ url[1] \in {"https:", "http:"} /\ url[2] = ""

\* a response callback that rejects whatever the status code
putRejectsEveryStatus(outcome) == FALSE

\* res.statusCode >= 200 && res.statusCode < 300
putSucceeds(outcome) == outcome = "2xx"

(* -------------------------------- state -------------------------------- *)
VARIABLES
  now,          \* Date.now(), in minutes
  loop,         \* the run whose handler is executing synchronously, or 0
  pc,           \* per run: the position of its handler
  req,          \* per run: req.file and req.body
  tempFiles,    \* per run: the handler's tempFiles array
  scanResult,   \* per run: the handler's scanResult variable
  fileCategory, \* per run: the handler's fileCategory constant
  destination,  \* per run: destinationFile of the conversion in progress
  pdfFile,      \* per run: the path convertFileToPDF returned
  putBody,      \* per run: the body of the PUT in flight
  response,     \* per run: the response sent
  disk,         \* the files on disk
  localFiles,   \* the localFiles map
  timers,       \* the pending setTimeout callbacks of handleFileUpload
  remote,       \* the objects the remote sink has stored
  scanExits,    \* history, per run: the exits of the scans it invoked
  trace,        \* history, per run: the stages executed, in order
  writes,       \* history: the sink writes issued
  unlinked,     \* history, per run: the paths its cleanup passes removed
  inserted,     \* history, per key: the clock value of its latest local upload
  conv,         \* history, per run: what convertFileToPDF dispatched to
  served,       \* history: the latest retrieval and the response it got
  API_KEY       \* process.env.ATTACHMENTS_CONVERT_API_KEY as read at startup

vars == <<now, loop, pc, req, tempFiles, scanResult, fileCategory, destination,
          pdfFile, putBody, response, disk, localFiles, timers, remote,
          scanExits, trace, writes, unlinked, inserted, conv, served, API_KEY>>

NoPath == <<"", "">>
NoContent == <<"", 0>>
NoResponse == [code |-> 0]
NoRetrieval == [type |-> "", filename |-> "", response |-> NoResponse]
\* the environment variable is not set
NoKey == ""
EmptyMap == [k \in {} |-> 0]

Init ==
  /\ now = 0
  /\ loop = 0
  /\ pc = [r \in Runs |-> "idle"]
  /\ req = [r \in Runs |-> NoRequest]
  /\ tempFiles = [r \in Runs |-> <<>>]
  /\ scanResult = [r \in Runs |-> NoScan]
  /\ fileCategory = [r \in Runs |-> ""]
  /\ destination = [r \in Runs |-> NoPath]
  /\ pdfFile = [r \in Runs |-> NoPath]
  /\ putBody = [r \in Runs |-> NoContent]
  /\ response = [r \in Runs |-> NoResponse]
  /\ disk = EmptyMap
  /\ localFiles = EmptyMap
  /\ timers = {}
  /\ remote = EmptyMap
  /\ scanExits = [r \in Runs |-> <<>>]
  /\ trace = [r \in Runs |-> <<>>]
  /\ writes = {}
  /\ unlinked = [r \in Runs |-> <<>>]
  /\ inserted = EmptyMap
  /\ conv = [r \in Runs |-> <<>>]
  /\ served = NoRetrieval
  /\ API_KEY = "secret"

Log(r, event) == trace' = [trace EXCEPT ![r] = Append(@, event)]
LogAll(r, events) == trace' = [trace EXCEPT ![r] = @ \o events]

storeVars == <<disk, localFiles, timers, remote>>
handlerVars == <<tempFiles, scanResult, fileCategory, destination, pdfFile, putBody>>
historyVars == <<scanExits, trace, writes, unlinked, inserted, conv>>

(* ------------------------------ POST /convert -------------------------- *)
\* multer has received a request that validateApiKey let through: the file
\* part, if any, is on disk under a path of its own, and the handler is
\* about to run.
Receive(r, file, originalUrl, previewUrl) ==
  /\ pc[r] = "idle"
  /\ \A q \in Runs : q < r => pc[q] # "idle"
  /\ loop = 0
  /\ API_KEY # NoKey
  /\ req' = [req EXCEPT ![r] = [file |-> file, originalUrl |-> originalUrl,
                                previewUrl |-> previewUrl]]
  /\ disk' = IF file.present THEN WriteFile(disk, UploadPath(r), <<"upload", r>>)
             ELSE disk
  /\ pc' = [pc EXCEPT ![r] = "received"]
  /\ UNCHANGED <<now, loop, response, localFiles, timers, remote>>
  /\ UNCHANGED handlerVars
  /\ UNCHANGED historyVars
  /\ UNCHANGED <<API_KEY, served>>

\* a middleware that lets a request without a key through
validateApiKeyAcceptsMissing(configured, provided) ==
  IF configured = NoKey
  THEN [next |-> FALSE, code |-> 500, message |-> "Service configuration error"]
  ELSE IF provided # NoKey /\ provided # configured
  THEN [next |-> FALSE, code |-> 401,
        message |-> "Unauthorized - Invalid or missing API key"]
  ELSE [next |-> TRUE, code |-> 0, message |-> ""]

\* validateApiKey, lines 74-94; `provided` is the x-api-key header or the
\* bearer token, NoKey when the request has neither
validateApiKey(configured, provided) ==
  IF configured = NoKey
  THEN [next |-> FALSE, code |-> 500, message |-> "Service configuration error"]
  ELSE IF provided = NoKey \/ provided # configured
  THEN [next |-> FALSE, code |-> 401,
        message |-> "Unauthorized - Invalid or missing API key"]
  ELSE [next |-> TRUE, code |-> 0, message |-> ""]

\* the keys a request may carry
ProvidedKeys == {NoKey, "secret", "guess"}

\* app.post('/convert', validateApiKey, upload.single('file'), ...): the
\* middleware answers a request it does not let through; multer and the
\* handler never run for it
Deny(r, provided) ==
  /\ pc[r] = "idle"
  /\ \A q \in Runs : q < r => pc[q] # "idle"
  /\ loop = 0
  /\ LET v == validateApiKey(API_KEY, provided)
     IN  /\ ~v.next
         /\ response' = [response EXCEPT ![r] =
                           [code |-> v.code, status |-> "error",
                            message |-> v.message]]
  /\ pc' = [pc EXCEPT ![r] = "done"]
  /\ Log(r, "respond")
  /\ UNCHANGED <<now, loop, req, disk, localFiles, timers, remote>>
  /\ UNCHANGED handlerVars
  /\ UNCHANGED <<scanExits, writes, unlinked, inserted, conv>>
  /\ UNCHANGED <<API_KEY, served>>

\* the middleware calls next(): multer receives the request
Admit(r, provided, file, originalUrl, previewUrl) ==
  /\ validateApiKey(API_KEY, provided).next
  /\ Receive(r, file, originalUrl, previewUrl)

\* lines 433-454: request validation, tempFiles.push(uploadedFile.path)
Validate(r) ==
  /\ pc[r] = "received"
  /\ loop = 0
  /\ IF ~req[r].file.present
     THEN /\ response' = [response EXCEPT ![r] =
                            [code |-> 400, status |-> "error",
                             message |-> "No file uploaded"]]
          /\ pc' = [pc EXCEPT ![r] = "done"]
          /\ Log(r, "respond")
          /\ UNCHANGED <<loop, tempFiles>>
     ELSE IF Missing(req[r].originalUrl) \/ Missing(req[r].previewUrl)
     THEN /\ response' = [response EXCEPT ![r] =
                            [code |-> 400, status |-> "error",
                             message |-> "Missing presigned URLs"]]
          /\ pc' = [pc EXCEPT ![r] = "done"]
          /\ Log(r, "respond")
          /\ UNCHANGED <<loop, tempFiles>>
     ELSE /\ tempFiles' = [tempFiles EXCEPT ![r] = Append(@, UploadPath(r))]
          /\ pc' = [pc EXCEPT ![r] = "classify"]
          /\ loop' = r
          /\ UNCHANGED <<response, trace>>
  /\ UNCHANGED <<now, req, scanResult, fileCategory, destination, pdfFile, putBody>>
  /\ UNCHANGED storeVars
  /\ UNCHANGED <<scanExits, writes, unlinked, inserted, conv>>
  /\ UNCHANGED <<API_KEY, served>>

\* the cleanup pass of the handler and what it leaves in the history
CleanupPass(r) ==
  LET c == cleanup(disk, tempFiles[r])
  IN  /\ disk' = c.disk
      /\ unlinked' = [unlinked EXCEPT ![r] = @ \o c.removed]

\* a handler that lets every category through
isBlockedNever(category) == FALSE

\* line 460: category === 'blocked'
isBlocked(category) == category = "blocked"

\* lines 458-471: classification, the blocked exit
Classify(r) ==
  /\ pc[r] = "classify"
  /\ loop = r
  /\ LET category == getFileCategory(req[r].file.originalname)
     IN  /\ fileCategory' = [fileCategory EXCEPT ![r] = category]
         /\ IF isBlocked(category)
            THEN /\ CleanupPass(r)
                 /\ response' = [response EXCEPT ![r] =
                                   [code |-> 400, status |-> "error",
                                    message |-> "File type not allowed",
                                    fileType |-> category]]
                 /\ pc' = [pc EXCEPT ![r] = "done"]
                 /\ loop' = 0
                 /\ LogAll(r, <<"classify", "cleanup", "respond">>)
            ELSE /\ pc' = [pc EXCEPT ![r] = "scan"]
                 /\ Log(r, "classify")
                 /\ UNCHANGED <<loop, response, disk, unlinked>>
  /\ UNCHANGED <<now, req, tempFiles, scanResult, destination, pdfFile, putBody>>
  /\ UNCHANGED <<localFiles, timers, remote, scanExits, writes, inserted, conv>>
  /\ UNCHANGED <<API_KEY, served>>

\* lines 473-475: STEP 1, the antivirus scan; a throw goes to the catch block
Scan(r, exit) ==
  /\ pc[r] = "scan"
  /\ loop = r
  /\ scanExits' = [scanExits EXCEPT ![r] = Append(@, exit)]
  /\ Log(r, "scan")
  /\ LET s == scanFile(exit)
     IN  IF s.threw
         THEN /\ pc' = [pc EXCEPT ![r] = "catch"]
              /\ UNCHANGED scanResult
         ELSE /\ scanResult' = [scanResult EXCEPT ![r] =
                                  [set |-> TRUE, clean |-> s.clean, result |-> s.result]]
              /\ pc' = [pc EXCEPT ![r] = "scanned"]
  /\ UNCHANGED <<now, loop, req, tempFiles, fileCategory, destination, pdfFile,
                 putBody, response>>
  /\ UNCHANGED storeVars
  /\ UNCHANGED <<writes, unlinked, inserted, conv>>
  /\ UNCHANGED <<API_KEY, served>>

\* a handler without the infected exit
rejectsNothing(sr) == FALSE

\* if (!scanResult.clean)
rejects(sr) == ~sr.clean

\* The handler returns: the locals no later step reads are dropped (the
\* history keeps tempFiles, scanResult and fileCategory).
Return(r) ==
  /\ destination' = [destination EXCEPT ![r] = NoPath]
  /\ pdfFile' = [pdfFile EXCEPT ![r] = NoPath]
  /\ putBody' = [putBody EXCEPT ![r] = NoContent]

\* lines 477-491: the infected exit
RejectInfected(r) ==
  /\ pc[r] = "scanned"
  /\ loop = r
  /\ rejects(scanResult[r])
  /\ CleanupPass(r)
  /\ response' = [response EXCEPT ![r] =
                    [code |-> 403, status |-> "rejected", scanResult |-> "infected",
                     details |-> scanResult[r].result,
                     message |-> "File rejected due to malware detection"]]
  /\ pc' = [pc EXCEPT ![r] = "done"]
  /\ loop' = 0
  /\ LogAll(r, <<"cleanup", "respond">>)
  /\ Return(r)
  /\ UNCHANGED <<now, req, tempFiles, scanResult, fileCategory>>
  /\ UNCHANGED <<localFiles, timers, remote, scanExits, writes, inserted, conv>>
  /\ UNCHANGED <<API_KEY, served>>

\* handleFileUpload(url, filePath, contentType) called by run r for `kind`:
\* the local branch stores and returns, the remote branch reads the file,
\* parses the url, sends the PUT and waits for its response (pc waitPc); a throw goes to
\* the catch block.
Upload(r, kind, url, filePath, contentType, okPc, waitPc) ==
  LET w == [run |-> r, kind |-> kind,
            sink |-> IF startsWithConvert(url) THEN "local" ELSE "remote",
            scannedClean |-> scanResult[r].set /\ scanResult[r].clean]
  IN  IF startsWithConvert(url)
      THEN LET st == storeLocally(disk, localFiles, timers, url, filePath,
                                  contentType, now, <<r, kind>>)
           IN  /\ disk' = st.disk
               /\ localFiles' = st.localFiles
               /\ timers' = st.timers
               /\ IF st.threw
                  THEN /\ pc' = [pc EXCEPT ![r] = "catch"]
                       /\ UNCHANGED <<writes, inserted>>
                  ELSE /\ pc' = [pc EXCEPT ![r] = okPc]
                       /\ writes' = writes \cup {w}
                       /\ inserted' = [k \in (DOMAIN inserted) \cup {pop(url)} |->
                                         IF k = pop(url) THEN now ELSE inserted[k]]
               /\ UNCHANGED <<loop, putBody, remote>>
      ELSE /\ IF ~existsSync(disk, filePath) \/ ~isAbsoluteUrl(url)
              THEN /\ pc' = [pc EXCEPT ![r] = "catch"]
                   /\ UNCHANGED <<loop, putBody, writes>>
              ELSE /\ pc' = [pc EXCEPT ![r] = waitPc]
                   /\ putBody' = [putBody EXCEPT ![r] = disk[filePath]]
                   /\ writes' = writes \cup {w}
                   /\ loop' = 0
           /\ UNCHANGED <<disk, localFiles, timers, remote, inserted>>

\* lines 495-502: STEP 2, upload of the original
UploadOriginal(r) ==
  /\ pc[r] = "scanned"
  /\ loop = r
  /\ ~rejects(scanResult[r])
  /\ Upload(r, "original", req[r].originalUrl, UploadPath(r),
            req[r].file.mimetype, "convert", "put_original")
  /\ Log(r, "upload-original")
  /\ UNCHANGED <<now, req, tempFiles, scanResult, fileCategory, destination,
                 pdfFile, response, scanExits, unlinked, conv>>
  /\ UNCHANGED <<API_KEY, served>>

\* the response (or transport error) of a PUT in flight
PutDone(r, outcome) ==
  /\ pc[r] \in {"put_original", "put_preview"}
  /\ loop = 0
  /\ LET url == IF pc[r] = "put_original" THEN req[r].originalUrl
                ELSE req[r].previewUrl
     IN  /\ remote' = IF outcome = "2xx"
                       THEN [u \in (DOMAIN remote) \cup {url} |->
                               IF u = url THEN putBody[r] ELSE remote[u]]
                       ELSE remote
         /\ pc' = [pc EXCEPT ![r] =
                     IF putSucceeds(outcome)
                     THEN (IF pc[r] = "put_original" THEN "convert" ELSE "finish")
                     ELSE "catch"]
  /\ loop' = r
  /\ UNCHANGED <<now, req, response, disk, localFiles, timers>>
  /\ UNCHANGED handlerVars
  /\ UNCHANGED historyVars
  /\ UNCHANGED <<API_KEY, served>>

\* a catch block that rethrows instead of falling back
onConversionErrorRethrow == "catch"

\* a catch block that starts the conversion over
onConversionErrorRetry == "convert"

\* the catch blocks of the image and document branches, lines 309-312 and
\* 321-324: return generatePlaceholderPDF(...)
onConversionError == "placeholder"

\* a dispatcher that sends archives to the document renderer
dispatchArchiveToRenderer(category, sourceReadable) ==
  IF category = "blocked" THEN "catch"
  ELSE IF category = "image" THEN "sharp"
  ELSE IF category = "document" \/ category = "archive"
  THEN (IF sourceReadable THEN "libre" ELSE onConversionError)
  ELSE "placeholder"

\* the dispatch of convertFileToPDF, lines 275-330: where the call goes for
\* a category; readFileSync of the document branch fails inside its try
dispatch(category, sourceReadable) ==
  IF category = "blocked" THEN "catch"
  ELSE IF category = "image" THEN "sharp"
  ELSE IF category = "document"
  THEN (IF sourceReadable THEN "libre" ELSE onConversionError)
  ELSE "placeholder"

\* a converter that takes every file for unsupported
categoryInConverterUnsupported(fileName) == "unsupported"

\* line 272: const category = getFileCategory(fileName), inside
\* convertFileToPDF, which is handed the filename and not the handler's
\* fileCategory
categoryInConverter(fileName) == getFileCategory(fileName)

\* convertFileToPDF, lines 270-330, up to its first wait: the temp name is
\* drawn, the category computed from the filename and dispatched on.  The
\* destinationFile of a branch that never uses it is not recorded.
ConvertStart(r, tempname) ==
  /\ pc[r] = "convert"
  /\ loop = r
  /\ LET category == categoryInConverter(req[r].file.originalname)
         to == dispatch(category, existsSync(disk, UploadPath(r)))
     IN  /\ conv' = [conv EXCEPT ![r] = Append(@, category)]
         /\ pc' = [pc EXCEPT ![r] = to]
         /\ IF to \in {"sharp", "libre"}
            THEN /\ destination' = [destination EXCEPT ![r] = PdfPath(tempname)]
                 /\ loop' = 0
            ELSE UNCHANGED <<loop, destination>>
  /\ Log(r, "convert")
  /\ UNCHANGED <<now, req, tempFiles, scanResult, fileCategory, pdfFile, putBody,
                 response, scanExits, writes, unlinked, inserted>>
  /\ UNCHANGED storeVars
  /\ UNCHANGED <<API_KEY, served>>

\* What the image branch (lines 283-312) ends in: the PDF is written, or the
\* encoder fails before the output stream is created, or a failure follows
\* the creation of the output stream.
SharpOutcomes == {"ok", "encoder_failed", "stream_failed"}

SharpDone(r, outcome) ==
  /\ pc[r] = "sharp"
  /\ loop = 0
  /\ loop' = r
  /\ IF outcome = "ok"
     THEN /\ disk' = WriteFile(disk, destination[r], <<"pdf", r>>)
          /\ pdfFile' = [pdfFile EXCEPT ![r] = destination[r]]
          /\ pc' = [pc EXCEPT ![r] = "upload_preview"]
     ELSE /\ disk' = IF outcome = "stream_failed"
                     THEN WriteFile(disk, destination[r], <<"partial", r>>)
                     ELSE disk
          /\ pc' = [pc EXCEPT ![r] = onConversionError]
          /\ UNCHANGED pdfFile
  /\ UNCHANGED <<now, req, tempFiles, scanResult, fileCategory, destination, putBody,
                 response, localFiles, timers, remote>>
  /\ UNCHANGED historyVars
  /\ UNCHANGED <<API_KEY, served>>

\* the document branch (lines 317-324) after libreConvertAsync settles
LibreDone(r, ok) ==
  /\ pc[r] = "libre"
  /\ loop = 0
  /\ loop' = r
  /\ IF ok
     THEN /\ disk' = WriteFile(disk, destination[r], <<"pdf", r>>)
          /\ pdfFile' = [pdfFile EXCEPT ![r] = destination[r]]
          /\ pc' = [pc EXCEPT ![r] = "upload_preview"]
     ELSE /\ pc' = [pc EXCEPT ![r] = onConversionError]
          /\ UNCHANGED <<disk, pdfFile>>
  /\ UNCHANGED <<now, req, tempFiles, scanResult, fileCategory, destination, putBody,
                 response, localFiles, timers, remote>>
  /\ UNCHANGED historyVars
  /\ UNCHANGED <<API_KEY, served>>

\* generatePlaceholderPDF, lines 206-214: a new temp name, the output stream
PlaceholderStart(r, tempname) ==
  /\ pc[r] = "placeholder"
  /\ loop = r
  /\ destination' = [destination EXCEPT ![r] = PdfPath(tempname)]
  /\ disk' = WriteFile(disk, PdfPath(tempname), <<"partial", r>>)
  /\ conv' = [conv EXCEPT ![r] = Append(@, "placeholder")]
  /\ pc' = [pc EXCEPT ![r] = "writing"]
  /\ loop' = 0
  /\ UNCHANGED <<now, req, tempFiles, scanResult, fileCategory, pdfFile, putBody,
                 response, localFiles, timers, remote>>
  /\ UNCHANGED <<scanExits, trace, writes, unlinked, inserted>>
  /\ UNCHANGED <<API_KEY, served>>

\* lines 263-264: the stream finishes (resolve) or fails (reject)
PlaceholderDone(r, ok) ==
  /\ pc[r] = "writing"
  /\ loop = 0
  /\ loop' = r
  /\ IF ok
     THEN /\ disk' = WriteFile(disk, destination[r], <<"placeholder", r>>)
          /\ pdfFile' = [pdfFile EXCEPT ![r] = destination[r]]
          /\ pc' = [pc EXCEPT ![r] = "upload_preview"]
     ELSE /\ pc' = [pc EXCEPT ![r] = "catch"]
          /\ UNCHANGED <<disk, pdfFile>>
  /\ UNCHANGED <<now, req, tempFiles, scanResult, fileCategory, destination, putBody,
                 response, localFiles, timers, remote>>
  /\ UNCHANGED historyVars
  /\ UNCHANGED <<API_KEY, served>>

\* lines 507-517: tempFiles.push(pdfFile); STEP 4, upload of the preview
UploadPreview(r) ==
  /\ pc[r] = "upload_preview"
  /\ loop = r
  /\ tempFiles' = [tempFiles EXCEPT ![r] = Append(@, pdfFile[r])]
  /\ Upload(r, "preview", req[r].previewUrl, pdfFile[r], "application/pdf",
            "finish", "put_preview")
  /\ Log(r, "upload-preview")
  /\ UNCHANGED <<now, req, scanResult, fileCategory, destination, pdfFile,
                 response, scanExits, unlinked, conv>>
  /\ UNCHANGED <<API_KEY, served>>

\* lines 519-535: cleanup and the success response
Finish(r) ==
  /\ pc[r] = "finish"
  /\ loop = r
  /\ CleanupPass(r)
  /\ response' = [response EXCEPT ![r] =
                    [code |-> 200, status |-> "success", scanResult |-> "clean",
                     originalUploaded |-> TRUE, previewGenerated |-> TRUE,
                     fileCategory |-> fileCategory[r],
                     message |-> "File processed successfully"]]
  /\ pc' = [pc EXCEPT ![r] = "done"]
  /\ loop' = 0
  /\ LogAll(r, <<"cleanup", "respond">>)
  /\ Return(r)
  /\ UNCHANGED <<now, req, tempFiles, scanResult, fileCategory>>
  /\ UNCHANGED <<localFiles, timers, remote, scanExits, writes, inserted, conv>>
  /\ UNCHANGED <<API_KEY, served>>

\* a catch block that reports every failure as not scanned
reportedScanNotScanned(sr) == "not_scanned"

\* scanResult ? (scanResult.clean ? 'clean' : 'infected') : 'not_scanned'
reportedScan(sr) ==
  IF sr.set THEN (IF sr.clean THEN "clean" ELSE "infected") ELSE "not_scanned"

\* lines 537-550: the catch block
Catch(r) ==
  /\ pc[r] = "catch"
  /\ loop = r
  /\ CleanupPass(r)
  /\ response' = [response EXCEPT ![r] =
                    [code |-> 500, status |-> "error", message |-> "error.message",
                     scanResult |-> reportedScan(scanResult[r])]]
  /\ pc' = [pc EXCEPT ![r] = "done"]
  /\ loop' = 0
  /\ LogAll(r, <<"cleanup", "respond">>)
  /\ Return(r)
  /\ UNCHANGED <<now, req, tempFiles, scanResult, fileCategory>>
  /\ UNCHANGED <<localFiles, timers, remote, scanExits, writes, inserted, conv>>
  /\ UNCHANGED <<API_KEY, served>>

(* ------------------------- retrieval, timers, clock -------------------- *)
GetTypes == {"original", "preview"}
GetNames == {"a", "b"}

\* GET /convert/:type/:filename, lines 116-165: the state changes only when
\* the entry has expired, by the lazy eviction.
Get(type, filename) ==
  /\ loop = 0
  /\ type \in GetTypes
  /\ filename \in DOMAIN localFiles
  /\ now > localFiles[filename].expiresAt
  /\ LET e == evict(disk, localFiles, filename, localFiles[filename].path)
     IN  /\ disk' = e.disk
         /\ localFiles' = e.localFiles
  /\ UNCHANGED <<now, loop, pc, req, response, timers, remote>>
  /\ UNCHANGED handlerVars
  /\ UNCHANGED historyVars
  /\ UNCHANGED <<API_KEY, served>>

\* GET /convert/:type/:filename, lines 116-165, with its response recorded
Serve(type, filename) ==
  /\ loop = 0
  /\ served' = [type |-> type, filename |-> filename,
                response |-> getFile(disk, localFiles, type, filename, now)]
  /\ LET e == afterGet(disk, localFiles, type, filename, now)
     IN  /\ disk' = e.disk
         /\ localFiles' = e.localFiles
  /\ UNCHANGED <<now, loop, pc, req, response, timers, remote, API_KEY>>
  /\ UNCHANGED handlerVars
  /\ UNCHANGED historyVars

\* the setTimeout callback of handleFileUpload, lines 369-379
TimerFire(t) ==
  /\ loop = 0
  /\ t \in timers
  /\ now >= t.due
  /\ timers' = timers \ {t}
  /\ IF t.filename \in DOMAIN localFiles
     THEN LET e == evict(disk, localFiles, t.filename, t.localPath)
          IN  /\ disk' = e.disk
              /\ localFiles' = e.localFiles
     ELSE UNCHANGED <<disk, localFiles>>
  /\ UNCHANGED <<now, loop, pc, req, response, remote>>
  /\ UNCHANGED handlerVars
  /\ UNCHANGED historyVars
  /\ UNCHANGED <<API_KEY, served>>

\* The clock advances.  Only expiresAt and the timers observe it, so it
\* stands still until the first timer is armed.
Tick ==
  /\ loop = 0
  /\ timers # {}
  /\ now < MaxTime
  /\ now' = now + 1
  /\ UNCHANGED <<loop, pc, req, response>>
  /\ UNCHANGED storeVars
  /\ UNCHANGED handlerVars
  /\ UNCHANGED historyVars
  /\ UNCHANGED <<API_KEY, served>>

Files == {NoFile} \cup {FileOf(n) : n \in FileNames}

\* Spec: every input and every outcome of the scanner, the remote sink and
\* the renderers; the clock stands still.
Next ==
  \/ \E r \in 1..NumRuns, file \in Files, o \in OriginalUrls, p \in PreviewUrls :
        Receive(r, file, o, p)
  \/ \E r \in 1..NumRuns : Validate(r)
  \/ \E r \in 1..NumRuns : Classify(r)
  \/ \E r \in 1..NumRuns, exit \in ScanExits : Scan(r, exit)
  \/ \E r \in 1..NumRuns : RejectInfected(r)
  \/ \E r \in 1..NumRuns : UploadOriginal(r)
  \/ \E r \in 1..NumRuns, outcome \in PutOutcomes : PutDone(r, outcome)
  \/ \E r \in 1..NumRuns, t \in TempNames : ConvertStart(r, t)
  \/ \E r \in 1..NumRuns, outcome \in SharpOutcomes : SharpDone(r, outcome)
  \/ \E r \in 1..NumRuns, ok \in BOOLEAN : LibreDone(r, ok)
  \/ \E r \in 1..NumRuns, t \in TempNames : PlaceholderStart(r, t)
  \/ \E r \in 1..NumRuns, ok \in BOOLEAN : PlaceholderDone(r, ok)
  \/ \E r \in 1..NumRuns : UploadPreview(r)
  \/ \E r \in 1..NumRuns : Finish(r)
  \/ \E r \in 1..NumRuns : Catch(r)

Spec == Init /\ [][Next]_vars

\* the steps of the runs 1..n that upload a document or a blocked file to
\* local destinations
LocalRuns(n) ==
  \/ \E r \in 1..n, name \in {TestTxt, BlockedExe},
        p \in {LocalPreviewA, LocalPreviewB} :
        Receive(r, FileOf(name), LocalOriginalA, p)
  \/ \E r \in 1..n : Validate(r)
  \/ \E r \in 1..n : Classify(r)
  \/ \E r \in 1..n, exit \in {0, 1} : Scan(r, exit)
  \/ \E r \in 1..n : RejectInfected(r)
  \/ \E r \in 1..n : UploadOriginal(r)
  \/ \E r \in 1..n, t \in TempNames : ConvertStart(r, t)
  \/ \E r \in 1..n, ok \in BOOLEAN : LibreDone(r, ok)
  \/ \E r \in 1..n, t \in TempNames : PlaceholderStart(r, t)
  \/ \E r \in 1..n, ok \in BOOLEAN : PlaceholderDone(r, ok)
  \/ \E r \in 1..n : UploadPreview(r)
  \/ \E r \in 1..n : Finish(r)
  \/ \E r \in 1..n : Catch(r)

\* SpecShared: concurrent runs that name the same local destinations; the
\* clock stands still.
NextShared == LocalRuns(NumShared)

SpecShared == Init /\ [][NextShared]_vars

\* SpecStore: clean document uploads to local destinations, retrievals,
\* the eviction timers and the clock.
NextStore ==
  \/ \E r \in 1..NumRuns, p \in {LocalPreviewA, LocalPreviewB} :
        Receive(r, FileOf(TestTxt), LocalOriginalA, p)
  \/ \E r \in 1..NumRuns : Validate(r)
  \/ \E r \in 1..NumRuns : Classify(r)
  \/ \E r \in 1..NumRuns, exit \in {0, 2} : Scan(r, exit)
  \/ \E r \in 1..NumRuns : UploadOriginal(r)
  \/ \E r \in 1..NumRuns, t \in TempNames : ConvertStart(r, t)
  \/ \E r \in 1..NumRuns : LibreDone(r, TRUE)
  \/ \E r \in 1..NumRuns : UploadPreview(r)
  \/ \E r \in 1..NumRuns : Finish(r)
  \/ \E r \in 1..NumRuns : Catch(r)
  \/ \E type \in GetTypes, filename \in GetNames : Get(type, filename)
  \/ \E t \in timers : TimerFire(t)
  \/ Tick

SpecStore == Init /\ [][NextStore]_vars

(* ----------------------- cleanup as a function ------------------------- *)
\* SpecCleanup: the cleanup pass of the handler applied, up to MaxPasses
\* times, to a tempFiles list the handler can hold and a disk on which any
\* of its files may already be gone.
TempFileLists(r) ==
  {<<>>, <<UploadPath(r)>>} \cup {<<UploadPath(r), PdfPath(t)>> : t \in TempNames}

CleanupPaths == {UploadPath(r) : r \in Runs} \cup {PdfPath(t) : t \in TempNames}

InitCleanup ==
  /\ now = 0
  /\ loop = 0
  /\ pc = [r \in Runs |-> "catch"]
  /\ req = [r \in Runs |-> NoRequest]
  /\ tempFiles \in {f \in [Runs -> UNION {TempFileLists(r) : r \in Runs}] :
                      \A r \in Runs : f[r] \in TempFileLists(r)}
  /\ scanResult = [r \in Runs |-> NoScan]
  /\ fileCategory = [r \in Runs |-> ""]
  /\ destination = [r \in Runs |-> NoPath]
  /\ pdfFile = [r \in Runs |-> NoPath]
  /\ putBody = [r \in Runs |-> NoContent]
  /\ response = [r \in Runs |-> NoResponse]
  /\ disk \in {[p \in S |-> <<"file", 0>>] : S \in SUBSET CleanupPaths}
  /\ localFiles = EmptyMap
  /\ timers = {}
  /\ remote = EmptyMap
  /\ scanExits = [r \in Runs |-> <<>>]
  /\ trace = [r \in Runs |-> <<>>]
  /\ writes = {}
  /\ unlinked = [r \in Runs |-> <<>>]
  /\ inserted = EmptyMap
  /\ conv = [r \in Runs |-> <<>>]
  /\ served = NoRetrieval
  /\ API_KEY = "secret"

\* tempFiles.forEach(...) of lines 462, 481, 520 and 541, run once more
CleanupOnly(r) ==
  /\ Len(trace[r]) < MaxPasses
  /\ LET c == cleanup(disk, tempFiles[r])
     IN  /\ disk' = c.disk
         /\ unlinked' = [unlinked EXCEPT ![r] = @ \o c.removed]
         /\ Log(r, IF c.raised THEN "raised" ELSE "cleanup")
  /\ UNCHANGED <<now, loop, pc, req, response, localFiles, timers, remote>>
  /\ UNCHANGED handlerVars
  /\ UNCHANGED <<scanExits, writes, inserted, conv>>
  /\ UNCHANGED <<API_KEY, served>>

NextCleanup == \E r \in Runs : CleanupOnly(r)

SpecCleanup == InitCleanup /\ [][NextCleanup]_vars

(* ------------------------------ properties ----------------------------- *)
Done(r) == pc[r] = "done"
ScannedClean(r) == scanResult[r].set /\ scanResult[r].clean
IsStorePath(p) == p[1] = "/tmp/convert-test"
Occurrences(seq, x) == Cardinality({i \in DOMAIN seq : seq[i] = x})
Elems(seq) == {seq[i] : i \in DOMAIN seq}

\* the run issued no sink write
NoWrites(r) == \A w \in writes : w.run # r

\* neither sink holds bytes that come from run r
NothingStoredOf(r) ==
  /\ \A p \in DOMAIN disk : IsStorePath(p) => disk[p][2] # r
  /\ \A u \in DOMAIN remote : remote[u][2] # r

\* the local store key a local sink write went to
KeyOfWrite(w) ==
  pop(IF w.kind = "original" THEN req[w.run].originalUrl ELSE req[w.run].previewUrl)

\* no run other than r has stored to the key of the local destination url
NotStoredByOthers(r, url) ==
  \A w \in writes : (w.sink = "local" /\ w.run # r) => KeyOfWrite(w) # pop(url)

\* the status of GET <url> now
Retrieve(url) == getFile(disk, localFiles, url[3], pop(url), now).code

LocalDestinations(r) ==
  {u \in {req[r].originalUrl, req[r].previewUrl} : startsWithConvert(u)}

\* the declared filename has a blocked extension
BlockedFile(r) ==
  /\ req[r].file.present
  /\ toLowerCase(slice(extname(req[r].file.originalname), 2)) \in FILE_TYPES.blocked

\* C1: scan-first.  Every sink write (local store or remote PUT, original or
\* preview) is issued by a run whose scan had returned clean=true, and a run
\* without a clean scan result has nothing in either sink nor in flight.
ScanFirst ==
  /\ \A w \in writes : w.scannedClean
  /\ \A r \in Runs : ~ScannedClean(r) =>
        NoWrites(r) /\ NothingStoredOf(r) /\ putBody[r] = NoContent

ScanFirstWitness ==
  \E r \in Runs :
    /\ ScannedClean(r)
    /\ \E w \in writes : w.run = r /\ w.kind = "original" /\ w.sink = "remote"
    /\ \E w \in writes : w.run = r /\ w.kind = "preview" /\ w.sink = "local"

\* C2: tri-state scan.  A scan that ends in neither the clean exit nor the
\* detection exit leaves scanResult unset (neither clean nor infected), the
\* run goes to the catch block and ends 500 reporting not_scanned, and it
\* issues no sink write.
ScanErrorFails ==
  \A r \in Runs :
    (scanExits[r] # <<>> /\ scanExits[r][1] \notin {0, 1}) =>
      /\ scanResult[r] = NoScan
      /\ pc[r] \in {"catch", "done"}
      /\ NoWrites(r)
      /\ NothingStoredOf(r)
      /\ Done(r) => /\ response[r].code = 500
                    /\ response[r].status = "error"
                    /\ response[r].scanResult = "not_scanned"

ScanErrorFailsWitness ==
  \E r \in Runs :
    /\ scanExits[r] = <<NullStatus>>
    /\ Done(r)
    /\ response[r].code = 500

\* C3, as claimed: after a run whose scan result is infected, retrieving its
\* originalUrl or its previewUrl from the local store yields 404, whatever
\* other runs execute.
InfectedNeverRetrievable ==
  \A r \in Runs :
    (Done(r) /\ scanExits[r] = <<1>>) =>
      \A u \in LocalDestinations(r) : Retrieve(u) = 404

\* C3, amended: a run whose scan result is infected ends 403 and writes
\* nothing to either sink: no sink holds bytes of it, and retrieving its
\* originalUrl or previewUrl yields 404 unless another run has stored to the
\* same key.
InfectedNeverStored ==
  \A r \in Runs :
    scanExits[r] = <<1>> =>
      /\ NoWrites(r)
      /\ NothingStoredOf(r)
      /\ Done(r) => response[r].code = 403
      /\ \A u \in LocalDestinations(r) :
            NotStoredByOthers(r, u) => Retrieve(u) = 404

InfectedNeverStoredWitness ==
  \E r \in Runs, q \in Runs :
    /\ q # r
    /\ Done(r) /\ scanExits[r] = <<1>> /\ response[r].code = 403
    /\ Done(q) /\ response[q].code = 200
    /\ Retrieve(req[r].previewUrl) = 404

\* C4: a run whose file has a blocked extension never invokes the scan and
\* never writes to either sink; nothing of it is at its original destination,
\* whose retrieval yields 404 (unless another run has stored to that key).
BlockedNeverScanned ==
  \A r \in Runs :
    (BlockedFile(r) /\ pc[r] \notin {"idle", "received", "classify"}) =>
      /\ scanExits[r] = <<>>
      /\ "scan" \notin Elems(trace[r])
      /\ NoWrites(r)
      /\ NothingStoredOf(r)
      /\ \/ Missing(req[r].originalUrl)
         \/ ~startsWithConvert(req[r].originalUrl)
         \/ ~NotStoredByOthers(r, req[r].originalUrl)
         \/ Retrieve(req[r].originalUrl) = 404

BlockedNeverScannedWitness ==
  \E r \in Runs :
    /\ BlockedFile(r)
    /\ Done(r)
    /\ response[r].code = 400
    /\ fileCategory[r] = "blocked"
    /\ req[r].originalUrl = LocalOriginalA
    /\ Retrieve(req[r].originalUrl) = 404

\* C5, as claimed: the response to an upload of a blocked file type has
\* status 400 and reports fileCategory: blocked and scanResult: not_scanned.
BlockedResponseReports ==
  \A r \in Runs :
    (Done(r) /\ fileCategory[r] = "blocked") =>
      /\ response[r].code = 400
      /\ "fileCategory" \in DOMAIN response[r]
      /\ response[r].fileCategory = "blocked"
      /\ "scanResult" \in DOMAIN response[r]
      /\ response[r].scanResult = "not_scanned"

\* C6, as claimed: every terminal response of POST /convert carries the scan
\* result that applied to the run: clean, infected or not_scanned.
EveryResponseReportsScan ==
  \A r \in Runs :
    Done(r) =>
      /\ "scanResult" \in DOMAIN response[r]
      /\ response[r].scanResult \in {"clean", "infected", "not_scanned"}

\* C7: TempFileSet discipline.  A run that has registered temp files ends
\* only after exactly one cleanup pass, made before the response is sent;
\* the pass removes the uploaded file exactly once and every other
\* registered path exactly once (or finds it already removed by the cleanup
\* of a run that drew the same temp name), and no registered file of the run
\* is left on disk.
TempFilesCleaned ==
  \A r \in Runs :
    (Done(r) /\ tempFiles[r] # <<>>) =>
      /\ Occurrences(trace[r], "cleanup") = 1
      /\ Len(trace[r]) >= 2
      /\ trace[r][Len(trace[r]) - 1] = "cleanup"
      /\ trace[r][Len(trace[r])] = "respond"
      /\ tempFiles[r][1] = UploadPath(r)
      /\ Occurrences(unlinked[r], UploadPath(r)) = 1
      /\ UploadPath(r) \notin DOMAIN disk
      /\ \A i \in DOMAIN tempFiles[r] :
            LET p == tempFiles[r][i]
            IN  /\ \/ Occurrences(unlinked[r], p) = 1
                   \/ /\ Occurrences(unlinked[r], p) = 0
                      /\ \E q \in Runs \ {r} : p \in Elems(unlinked[q])
                /\ p \in DOMAIN disk => disk[p][2] # r

TempFilesCleanedWitness ==
  \E r \in Runs :
    /\ Done(r)
    /\ response[r].code = 500
    /\ Len(tempFiles[r]) = 2
    /\ unlinked[r] = tempFiles[r]

\* C8, as claimed: the uploaded file's temporary path is unlinked on every
\* exit path of a request; a request that ends 400 because originalUrl or
\* previewUrl is missing leaves no temp file on disk.
UploadedFileUnlinked ==
  \A r \in Runs :
    (Done(r) /\ req[r].file.present) => UploadPath(r) \notin DOMAIN disk

\* C9: cleanup is idempotent.  No cleanup pass raises, also when files are
\* missing, and a pass after the first one over the same tempFiles list
\* removes nothing and leaves the disk and the response unchanged.
CleanupIdempotent ==
  [][\A r \in Runs :
       trace'[r] # trace[r] =>
         /\ trace'[r][Len(trace'[r])] = "cleanup"
         /\ Len(trace[r]) >= 1 =>
               /\ disk' = disk
               /\ unlinked'[r] = unlinked[r]
               /\ response' = response]_vars

CleanupIdempotentWitness ==
  \E r \in Runs :
    /\ Len(trace[r]) = 2
    /\ Len(unlinked[r]) = 2

\* the number of local-sink uploads made so far to key k
UploadsTo(k) ==
  Cardinality({w \in writes : w.sink = "local" /\ KeyOfWrite(w) = k})

\* C10: an entry inserted at time T by a local-sink upload, whose key has not
\* been uploaded to again, is retrievable (200) at every time before
\* T + 5 min and is not retrievable (404) at any time after T + 5 min,
\* whether or not the eviction timer has fired.
EntryLivesForTtl ==
  \A k \in DOMAIN inserted :
    UploadsTo(k) = 1 =>
      LET code == getFile(disk, localFiles, "original", k, now).code
      IN  /\ now < inserted[k] + TTL => code = 200
          /\ now > inserted[k] + TTL => code = 404

\* an entry uploaded once has outlived its TTL, its timer has not fired yet
\* and no GET has evicted it: the entry is still in the map and GET says 404
EntryLivesForTtlWitness ==
  \E k \in DOMAIN inserted :
    /\ UploadsTo(k) = 1
    /\ k \in DOMAIN localFiles
    /\ now > inserted[k] + TTL
    /\ getFile(disk, localFiles, "preview", k, now).code = 404

\* C11, as claimed: after a second local upload to key k at time T2 the
\* entry for k stays retrievable until T2 + 5 min; no eviction timer armed by
\* an earlier upload to k removes the newer entry or its file.
ReuploadResetsExpiry ==
  \A k \in DOMAIN inserted :
    (UploadsTo(k) >= 2 /\ now < inserted[k] + TTL) =>
      /\ k \in DOMAIN localFiles
      /\ existsSync(disk, LocalPath(k))
      /\ getFile(disk, localFiles, "preview", k, now).code = 200

\* the eviction timers pending for key k
TimersOf(k) == {t \in timers : t.filename = k}

\* C12, as claimed: in every reachable state of the local store there is at
\* most one live entry per key (the map holds one entry per key by
\* construction) and at most one pending eviction timer per key.
OneEntryOneTimerPerKey ==
  \A k \in GetNames : Cardinality(TimersOf(k)) <= 1

\* the destination url a sink write went to
UrlOfWrite(w) ==
  IF w.kind = "original" THEN req[w.run].originalUrl ELSE req[w.run].previewUrl

\* two destination urls name the same stored object: the same local key, or
\* the same remote url
SameTarget(u, v) ==
  IF startsWithConvert(u) THEN startsWithConvert(v) /\ pop(u) = pop(v)
  ELSE u = v

\* no run other than r has issued a write to the target of url
SoleWriter(r, url) ==
  \A w \in writes : w.run # r => ~SameTarget(UrlOfWrite(w), url)

\* what the destination url holds: the contents a retrieval can return
StoredAt(url) ==
  IF startsWithConvert(url)
  THEN (IF pop(url) \in DOMAIN localFiles
           /\ existsSync(disk, localFiles[pop(url)].path)
        THEN {disk[localFiles[pop(url)].path]} ELSE {})
  ELSE (IF url \in DOMAIN remote THEN {remote[url]} ELSE {})

\* the content is a PDF document: the output of the encoder, of the renderer
\* or of the placeholder generator, completely written
IsPdf(c) == c[1] \in {"pdf", "placeholder"}

Succeeded(r) == Done(r) /\ response[r].code = 200

\* C13: for any run that completes with a 200 success response, exactly one
\* preview exists at the preview destination and it is a PDF; it is the PDF
\* of this run unless another run has written to the same destination.
PreviewIsPdf ==
  \A r \in Runs :
    Succeeded(r) =>
      /\ Cardinality(StoredAt(req[r].previewUrl)) = 1
      /\ \A c \in StoredAt(req[r].previewUrl) :
            /\ IsPdf(c)
            /\ SoleWriter(r, req[r].previewUrl) => c[2] = r

\* a run whose image conversion fell back to the placeholder has succeeded
\* and its placeholder PDF is at the local preview destination
PreviewIsPdfWitness ==
  \E r \in Runs :
    /\ Succeeded(r)
    /\ conv[r] = <<"image", "placeholder">>
    /\ StoredAt(req[r].previewUrl) = {<<"placeholder", r>>}
    /\ startsWithConvert(req[r].previewUrl)

\* C14, as claimed: for any run with local destinations that completes with
\* a 200 success response, retrieving the original destination within the
\* TTL returns exactly the bytes of the uploaded file with its declared
\* content type, for every choice of originalUrl and previewUrl under the
\* local prefix.
OriginalRetrievable ==
  \A r \in Runs :
    (/\ Succeeded(r)
     /\ startsWithConvert(req[r].originalUrl)
     /\ startsWithConvert(req[r].previewUrl)
     /\ now < inserted[pop(req[r].originalUrl)] + TTL) =>
      getFile(disk, localFiles, "original", pop(req[r].originalUrl), now) =
        [code |-> 200, contentType |-> req[r].file.mimetype,
         body |-> <<"upload", r>>]

\* run r has issued the upload of `kind`
Issued(r, kind) == \E w \in writes : w.run = r /\ w.kind = kind

\* the destination holds what run r uploaded there, or whatever another run
\* has written to the same destination since
HoldsOriginal(r) ==
  /\ StoredAt(req[r].originalUrl) # {}
  /\ SoleWriter(r, req[r].originalUrl) =>
        StoredAt(req[r].originalUrl) = {<<"upload", r>>}

HoldsPreview(r) ==
  /\ StoredAt(req[r].previewUrl) # {}
  /\ SoleWriter(r, req[r].previewUrl) =>
        \A c \in StoredAt(req[r].previewUrl) : IsPdf(c) /\ c[2] = r

\* the body of the 200 response, lines 527-535
SuccessBody(category) ==
  [code |-> 200, status |-> "success", scanResult |-> "clean",
   originalUploaded |-> TRUE, previewGenerated |-> TRUE,
   fileCategory |-> category, message |-> "File processed successfully"]

\* C15: a 200 success response is emitted only when the scan was clean and
\* both the original upload and the preview upload were accepted by their
\* sinks; a clean upload of a document-category file whose two uploads were
\* accepted ends with the 200 response {status: success, scanResult: clean,
\* originalUploaded: true, previewGenerated: true, fileCategory: document}.
SuccessOnlyAfterUploads ==
  \A r \in Runs :
    /\ Succeeded(r) =>
          /\ scanExits[r] = <<0>>
          /\ ScannedClean(r)
          /\ Issued(r, "original") /\ HoldsOriginal(r)
          /\ Issued(r, "preview") /\ HoldsPreview(r)
          /\ response[r] = SuccessBody(getFileCategory(req[r].file.originalname))
    /\ (/\ Done(r)
        /\ getFileCategory(req[r].file.originalname) = "document"
        /\ ScannedClean(r)
        /\ Issued(r, "original") /\ SoleWriter(r, req[r].originalUrl)
        /\ Issued(r, "preview") /\ SoleWriter(r, req[r].previewUrl)
        /\ HoldsOriginal(r) /\ HoldsPreview(r)) =>
          response[r] = SuccessBody("document")

\* a clean text document has gone to the remote sink twice and ended 200
SuccessOnlyAfterUploadsWitness ==
  \E r \in Runs :
    /\ Succeeded(r)
    /\ req[r].file.originalname = TestTxt
    /\ req[r].originalUrl = RemoteOriginal
    /\ req[r].previewUrl = RemotePreview
    /\ response[r].fileCategory = "document"
    /\ conv[r] = <<"document">>

\* the conversion of run r was dispatched to the encoder or to the renderer
EncodedOrRendered(r) == conv[r] # <<>> /\ conv[r][1] \in {"image", "document"}

\* the run has left the pipeline through the catch block or has ended
Ended(r) == pc[r] \in {"catch", "done"}

\* C16, as claimed: conversion never hard-fails for a non-blocked file; for
\* the image and document categories the run still reaches preview upload.
ConversionNeverFails ==
  \A r \in Runs :
    (EncodedOrRendered(r) /\ Ended(r)) => "upload-preview" \in Elems(trace[r])

\* C16, amended: for the image and document categories a failure of the
\* encoder or renderer never fails the run by itself: convertFileToPDF falls
\* back to the placeholder generator, and a run that succeeds after the
\* fallback has the placeholder PDF as its preview.  The conversion fails
\* the run only when the placeholder's own output stream fails.
ConversionFallsBack ==
  \A r \in Runs :
    EncodedOrRendered(r) =>
      /\ (Ended(r) /\ "upload-preview" \notin Elems(trace[r])) =>
            conv[r] = <<conv[r][1], "placeholder">>
      /\ pc[r] \in {"placeholder", "writing"} =>
            "upload-preview" \notin Elems(trace[r])
      /\ (Succeeded(r) /\ Len(conv[r]) = 2
          /\ SoleWriter(r, req[r].previewUrl)) =>
            StoredAt(req[r].previewUrl) = {<<"placeholder", r>>}

\* the renderer failed on a document, the placeholder was written and
\* uploaded, and the run ended 200
ConversionFallsBackWitness ==
  \E r \in Runs :
    /\ conv[r] = <<"document", "placeholder">>
    /\ Succeeded(r)
    /\ StoredAt(req[r].previewUrl) = {<<"placeholder", r>>}

(* -------------------- the placeholder-only categories ------------------ *)
ClipMp4 == <<"c","l","i","p",".","m","p","4">>
SongMp3 == <<"s","o","n","g",".","m","p","3">>
Readme == <<"R","E","A","D","M","E">>
PlaceholderNames == {DataZip, ClipMp4, SongMp3, Readme}
PlaceholderCategories == {"video", "audio", "archive", "unsupported"}

\* SpecDispatch: clean uploads of files whose category is neither image nor
\* document nor blocked, to local and remote destinations, with every
\* outcome of the PUTs and of the placeholder's output stream.
NextDispatch ==
  \/ \E r \in 1..NumRuns, name \in PlaceholderNames,
        o \in {LocalOriginalA, RemoteOriginal},
        p \in {LocalPreviewB, RemotePreview} :
        Receive(r, FileOf(name), o, p)
  \/ \E r \in 1..NumRuns : Validate(r)
  \/ \E r \in 1..NumRuns : Classify(r)
  \/ \E r \in 1..NumRuns : Scan(r, 0)
  \/ \E r \in 1..NumRuns : UploadOriginal(r)
  \/ \E r \in 1..NumRuns, outcome \in PutOutcomes : PutDone(r, outcome)
  \/ \E r \in 1..NumRuns, t \in TempNames : ConvertStart(r, t)
  \/ \E r \in 1..NumRuns, t \in TempNames : PlaceholderStart(r, t)
  \/ \E r \in 1..NumRuns, ok \in BOOLEAN : PlaceholderDone(r, ok)
  \/ \E r \in 1..NumRuns : UploadPreview(r)
  \/ \E r \in 1..NumRuns : Finish(r)
  \/ \E r \in 1..NumRuns : Catch(r)

SpecDispatch == Init /\ [][NextDispatch]_vars

Categories ==
  {"image", "document", "video", "audio", "archive", "blocked", "unsupported"}

\* the filenames the classifier is applied to: a stem followed by nothing or
\* by '.' and an extension
ClassifyStems ==
  {<<>>, <<"a">>, <<".">>, <<"a",".","t","a","r">>, <<"a",".","e","x","e">>}
ClassifyExtensions ==
  {<<>>, <<"e","x","e">>, <<"E","X","E">>, <<"E","x","e">>, <<"j","s">>,
   <<"t","x","t">>, <<"T","X","T">>, <<"p","n","g">>, <<"m","p","4">>,
   <<"m","p","3">>, <<"g","z">>, <<"z","i","p">>, <<"p","d","f">>,
   <<"x","y","z">>}
ClassifyNames ==
  {stem \o suffix :
     stem \in ClassifyStems,
     suffix \in {<<>>} \cup {<<".">> \o e : e \in ClassifyExtensions}}

\* FILE_TYPES with a blocked extension also present in another set
DuplicatedTables ==
  {[FILE_TYPES EXCEPT ![c] = @ \cup {e}] :
     c \in {"image", "document", "video", "audio", "archive"},
     e \in {<<"e","x","e">>, <<"j","s">>}}

\* SpecClassify: the handler at its classification step, for every filename
\* of ClassifyNames.
InitClassify ==
  /\ now = 0
  /\ loop = 1
  /\ \E name \in ClassifyNames :
        req = [r \in Runs |->
                 IF r = 1
                 THEN [file |-> FileOf(name), originalUrl |-> LocalOriginalA,
                       previewUrl |-> LocalPreviewB]
                 ELSE NoRequest]
  /\ pc = [r \in Runs |-> IF r = 1 THEN "classify" ELSE "idle"]
  /\ tempFiles = [r \in Runs |-> IF r = 1 THEN <<UploadPath(1)>> ELSE <<>>]
  /\ scanResult = [r \in Runs |-> NoScan]
  /\ fileCategory = [r \in Runs |-> ""]
  /\ destination = [r \in Runs |-> NoPath]
  /\ pdfFile = [r \in Runs |-> NoPath]
  /\ putBody = [r \in Runs |-> NoContent]
  /\ response = [r \in Runs |-> NoResponse]
  /\ disk = WriteFile(EmptyMap, UploadPath(1), <<"upload", 1>>)
  /\ localFiles = EmptyMap
  /\ timers = {}
  /\ remote = EmptyMap
  /\ scanExits = [r \in Runs |-> <<>>]
  /\ trace = [r \in Runs |-> <<>>]
  /\ writes = {}
  /\ unlinked = [r \in Runs |-> <<>>]
  /\ inserted = EmptyMap
  /\ conv = [r \in Runs |-> <<>>]
  /\ served = NoRetrieval
  /\ API_KEY = "secret"

NextClassify == \E r \in Runs : Classify(r)

SpecClassify == InitClassify /\ [][NextClassify]_vars

\* C18: getFileCategory is total and deterministic over filenames: it
\* yields one of the seven categories, the same at every evaluation, and the
\* category the handler holds is that value; an extension in the blocked set
\* classifies as blocked, also in a table where the same extension is
\* present in another set.
ClassifyTotalBlockedFirst ==
  \A r \in Runs :
    req[r].file.present =>
      LET name == req[r].file.originalname
          ext == extensionOf(name)
      IN  /\ getFileCategory(name) \in Categories
          /\ fileCategory[r] # "" => fileCategory[r] = getFileCategory(name)
          /\ ext \in FILE_TYPES.blocked => getFileCategory(name) = "blocked"
          /\ \A types \in DuplicatedTables :
                /\ categoryOf(types, ext) \in Categories
                /\ ext \in types.blocked => categoryOf(types, ext) = "blocked"
                /\ ext \notin {<<"e","x","e">>, <<"j","s">>} =>
                      categoryOf(types, ext) = getFileCategory(name)

\* 'a.EXE' has been classified as blocked, and its extension is also in the
\* image set of one of the tables
ClassifyTotalBlockedFirstWitness ==
  \E r \in Runs :
    /\ req[r].file.originalname = <<"a", ".", "E", "X", "E">>
    /\ fileCategory[r] = "blocked"
    /\ \E types \in DuplicatedTables :
          extensionOf(req[r].file.originalname) \in types.image

\* the text after the last '.' of the filename; the whole name stands for
\* "no '.'" and is never used then
afterLastDot(filename) ==
  LET dots == {i \in DOMAIN filename : filename[i] = "."}
      last == CHOOSE i \in dots : \A j \in dots : j <= i
  IN  IF dots = {} THEN filename ELSE slice(filename, last + 1)

hasDot(filename) == \E i \in DOMAIN filename : filename[i] = "."

\* C19, as claimed: the category of every filename is the category of the
\* text after its last '.', lower-cased; a filename with no '.' is
\* unsupported, and an extension in no set is unsupported.
ClassifiesByLastDot ==
  \A r \in Runs :
    req[r].file.present =>
      LET name == req[r].file.originalname
      IN  getFileCategory(name) =
            IF hasDot(name)
            THEN categoryOf(FILE_TYPES, toLowerCase(afterLastDot(name)))
            ELSE "unsupported"

(* ------------------------------ termination ---------------------------- *)
\* SpecLive: uploads of a document or an image to local and remote
\* destinations.  Every continuation of a handler that is ready runs: the event loop
\* executes the handler's synchronous segments, clamdscan is killed at its
\* timeout, and the encoder, the renderer and the placeholder stream settle.  Nothing
\* makes the remote endpoint answer, and uploadWithPresignedUrl sets no
\* timeout on its request, so PutDone carries no fairness.
HandlerStep(r) ==
  \/ Validate(r)
  \/ Classify(r)
  \/ \E exit \in {0, 2} : Scan(r, exit)
  \/ UploadOriginal(r)
  \/ \E t \in TempNames : ConvertStart(r, t)
  \/ \E outcome \in SharpOutcomes : SharpDone(r, outcome)
  \/ \E ok \in BOOLEAN : LibreDone(r, ok)
  \/ \E t \in TempNames : PlaceholderStart(r, t)
  \/ \E ok \in BOOLEAN : PlaceholderDone(r, ok)
  \/ UploadPreview(r)
  \/ Finish(r)
  \/ Catch(r)

NextLive ==
  \/ \E r \in 1..NumRuns, name \in {TestTxt, PicPng},
        o \in {RemoteOriginal, LocalOriginalA},
        p \in {RemotePreview, LocalPreviewB} :
        Receive(r, FileOf(name), o, p)
  \/ \E r \in 1..NumRuns : HandlerStep(r)
  \/ \E r \in 1..NumRuns, outcome \in PutOutcomes : PutDone(r, outcome)

SpecLive ==
  /\ Init
  /\ [][NextLive]_vars
  /\ \A r \in 1..NumRuns : WF_vars(HandlerStep(r))

\* C20, as claimed: a run that starts always reaches a terminal state and
\* performs its temp-file cleanup, whatever the sinks, the scanner and the
\* renderers do, including a remote endpoint that never answers.
RunTerminates ==
  \A r \in Runs :
    (pc[r] = "classify") ~> (pc[r] = "done" /\ "cleanup" \in Elems(trace[r]))

(* ------------------------ concurrent conversions ----------------------- *)
\* SpecConvert: one more request than the cap, each a clean document or
\* image sent to local destinations; the encoder and the renderer succeed.
ConvertRuns == 1..(ConversionCap + 1)

NextConvert ==
  \/ \E r \in ConvertRuns, name \in {TestTxt, PicPng} :
        Receive(r, FileOf(name), LocalOriginalA, LocalPreviewB)
  \/ \E r \in ConvertRuns : Validate(r)
  \/ \E r \in ConvertRuns : Classify(r)
  \/ \E r \in ConvertRuns : Scan(r, 0)
  \/ \E r \in ConvertRuns : UploadOriginal(r)
  \/ \E r \in ConvertRuns, t \in TempNames : ConvertStart(r, t)
  \/ \E r \in ConvertRuns : SharpDone(r, "ok")
  \/ \E r \in ConvertRuns : LibreDone(r, TRUE)
  \/ \E r \in ConvertRuns : UploadPreview(r)
  \/ \E r \in ConvertRuns : Finish(r)

SpecConvert == Init /\ [][NextConvert]_vars

\* the runs whose image or document conversion is in progress
Converting == {r \in Runs : pc[r] \in {"sharp", "libre"}}

\* C21, as claimed: at most 2 document/image conversions are active at the
\* same time across all concurrent runs.
ConversionsCapped == Cardinality(Converting) <= ConversionCap

(* ------------------------ a conversion that hangs ---------------------- *)
\* SpecHang: the requests of SpecLive, with a remote endpoint that always
\* answers and with an encoder and a renderer that may never settle:
\* convertFileToPDF awaits sharp and libreConvertAsync with no timeout, and
\* the handler sets no timer around the call, so nothing in the process
\* forces SharpDone or LibreDone to happen.
StepOutsideRenderer(r) ==
  \/ Validate(r)
  \/ Classify(r)
  \/ \E exit \in {0, 2} : Scan(r, exit)
  \/ UploadOriginal(r)
  \/ \E t \in TempNames : ConvertStart(r, t)
  \/ \E t \in TempNames : PlaceholderStart(r, t)
  \/ \E ok \in BOOLEAN : PlaceholderDone(r, ok)
  \/ UploadPreview(r)
  \/ Finish(r)
  \/ Catch(r)

SpecHang ==
  /\ Init
  /\ [][NextLive]_vars
  /\ \A r \in 1..NumRuns : WF_vars(StepOutsideRenderer(r))
  /\ \A r \in 1..NumRuns : WF_vars(\E outcome \in PutOutcomes : PutDone(r, outcome))

\* C22, as claimed: a conversion never stays in progress for ever: one that
\* does not finish is ended by a watchdog, so the run reaches a terminal
\* state with every temp file it registered removed.
HungConversionFails ==
  \A r \in Runs :
    (pc[r] \in {"sharp", "libre"}) ~>
      (/\ pc[r] = "done"
       /\ \A i \in 1..Len(tempFiles[r]) : ~existsSync(disk, tempFiles[r][i]))

(* --------------------------- a scan that is stuck ---------------------- *)
\* SpecStuck: concurrent requests with a clean document for local
\* destinations; each scan either passes or is killed at the 30 s timeout
\* of execSync.
NextStuck ==
  \/ \E r \in 1..NumShared, p \in {LocalPreviewA, LocalPreviewB} :
        Receive(r, FileOf(TestTxt), LocalOriginalA, p)
  \/ \E r \in 1..NumShared : Validate(r)
  \/ \E r \in 1..NumShared : Classify(r)
  \/ \E r \in 1..NumShared, exit \in {0, NullStatus} : Scan(r, exit)
  \/ \E r \in 1..NumShared : UploadOriginal(r)
  \/ \E r \in 1..NumShared, t \in TempNames : ConvertStart(r, t)
  \/ \E r \in 1..NumShared : LibreDone(r, TRUE)
  \/ \E r \in 1..NumShared : UploadPreview(r)
  \/ \E r \in 1..NumShared : Finish(r)
  \/ \E r \in 1..NumShared : Catch(r)

SpecStuck == Init /\ [][NextStuck]_vars

\* the scan of run r was killed at its timeout
TimedOut(r) == scanExits[r] = <<NullStatus>>

\* the part of the state another run can observe is the same before and
\* after the step, except for r's own uploaded temp file
OnlyOwnEffects(r) ==
  /\ localFiles' = localFiles /\ timers' = timers /\ remote' = remote
  /\ writes' = writes /\ inserted' = inserted /\ now' = now
  /\ DOMAIN disk' \subseteq DOMAIN disk
  /\ \A p \in DOMAIN disk :
       p # UploadPath(r) => p \in DOMAIN disk' /\ disk'[p] = disk[p]
  /\ \A q \in Runs \ {r} :
       /\ pc'[q] = pc[q] /\ response'[q] = response[q]
       /\ tempFiles'[q] = tempFiles[q] /\ scanResult'[q] = scanResult[q]
       /\ destination'[q] = destination[q] /\ pdfFile'[q] = pdfFile[q]

\* C23: a scan killed at its timeout fails only its own run: the run goes to
\* the catch block and ends with 500 having issued no sink write, every
\* step it takes from the scan on leaves what the other runs can observe
\* untouched, and with its response it gives the event loop back, so no
\* other run stays blocked.
StuckScanFailsOnlyItself ==
  /\ [](\A r \in Runs :
          TimedOut(r) =>
            /\ pc[r] \in {"catch", "done"}
            /\ NoWrites(r) /\ NothingStoredOf(r)
            /\ Done(r) => /\ response[r].code = 500
                          /\ ~existsSync(disk, UploadPath(r))
                          /\ loop # r)
  /\ [][\A r \in Runs :
          (TimedOut(r)' /\ pc'[r] # pc[r]) => OnlyOwnEffects(r)]_vars

\* a run whose scan was killed has ended while another run, received before
\* the scan, went on to a 200
StuckScanFailsOnlyItselfWitness ==
  \E r \in Runs, q \in Runs :
    /\ r # q /\ TimedOut(r) /\ Done(r) /\ Succeeded(q)
    /\ response[r].code = 500

(* ------------------------- what a failed run leaves -------------------- *)
\* C24, as claimed: in every terminal state of a run the sinks hold either
\* both the run's original and its preview (200) or nothing written by that
\* run (rejected or failed), also when the preview upload fails after the
\* original upload succeeded.
NoPartialArtifacts ==
  \A r \in Runs :
    Done(r) =>
      IF response[r].code = 200
      THEN HoldsOriginal(r) /\ HoldsPreview(r)
      ELSE NothingStoredOf(r)

(* ----------------------------- the infected exit ----------------------- *)
\* the scan of run r reported a detection
Infected(r) == scanResult[r].set /\ ~scanResult[r].clean

\* C25: when the scan returns clean=false the run ends rejected with the 403
\* response {status: rejected, scanResult: infected, details: what the
\* engine reported}, its temp files are removed, and no upload or
\* conversion stage executes afterwards.
InfectedRejected ==
  \A r \in Runs :
    Infected(r) =>
      /\ pc[r] \in {"scanned", "done"}
      /\ NoWrites(r) /\ conv[r] = <<>>
      /\ Done(r) =>
           /\ response[r] = [code |-> 403, status |-> "rejected",
                             scanResult |-> "infected",
                             details |-> scanResult[r].result,
                             message |-> "File rejected due to malware detection"]
           /\ scanResult[r].result = "FOUND"
           /\ trace[r] = <<"classify", "scan", "cleanup", "respond">>
           /\ tempFiles[r] = <<UploadPath(r)>>
           /\ ~existsSync(disk, UploadPath(r))

InfectedRejectedWitness ==
  \E r \in Runs :
    /\ Infected(r) /\ Done(r) /\ response[r].code = 403
    /\ unlinked[r] = <<UploadPath(r)>>

(* ------------------------------ the remote sink ------------------------ *)
\* the destination of the PUT run r is waiting for
UrlInFlight(r) ==
  IF pc[r] = "put_original" THEN req[r].originalUrl ELSE req[r].previewUrl

\* C26: an upload call to the remote sink performs one PUT and never
\* retries: the answer to the PUT ends the call.  The call succeeds exactly
\* when the status is 2xx, that is exactly when the endpoint has taken the
\* body; with any other status or a transport error the handler goes to
\* its catch block, which ends the whole request with 500.
OnePutNoRetry ==
  [][\A r \in Runs :
       /\ (pc[r] \in {"put_original", "put_preview"} /\ pc'[r] # pc[r]) =>
            /\ pc'[r] \in {"catch", IF pc[r] = "put_original" THEN "convert"
                                    ELSE "finish"}
            /\ IF pc'[r] = "catch"
               THEN remote' = remote
               ELSE /\ UrlInFlight(r) \in DOMAIN remote'
                    /\ remote'[UrlInFlight(r)] = putBody[r]
            /\ trace'[r] = trace[r]
       /\ (pc[r] = "catch" /\ pc'[r] # pc[r]) =>
            pc'[r] = "done" /\ response'[r].code = 500
       /\ Occurrences(trace'[r], "upload-original") <= 1
       /\ Occurrences(trace'[r], "upload-preview") <= 1]_vars

\* a request has ended with 500 after the one PUT of its original was not
\* accepted
OnePutNoRetryWitness ==
  \E r \in Runs :
    /\ Done(r) /\ response[r].code = 500
    /\ ~startsWithConvert(req[r].originalUrl)
    /\ trace[r] = <<"classify", "scan", "upload-original", "cleanup", "respond">>
    /\ req[r].originalUrl \notin DOMAIN remote

(* ------------------------------ order of stages ------------------------ *)
\* the stages before the cleanup, in the order of the handler's code
StageOrder == <<"classify", "scan", "upload-original", "convert", "upload-preview">>

\* how a run may end: not yet, with cleanup and response, or (the 400
\* exits that precede the registration of a temp file) with the response only
Endings == {<<>>, <<"cleanup", "respond">>, <<"respond">>}

\* C27: the stages of a run occur in the fixed order classify, scan,
\* upload-original, convert, upload-preview, cleanup, each at most once:
\* what a run has executed is always a prefix of that order, followed by
\* the cleanup and the response once the run has ended.  A 200 is reached
\* only after all of them, and nothing runs after a run has ended.
StagesInOrder ==
  \A r \in Runs :
    /\ \E n \in 0..Len(StageOrder), e \in Endings :
         trace[r] = SubSeq(StageOrder, 1, n) \o e
    /\ Done(r) <=> (trace[r] # <<>> /\ trace[r][Len(trace[r])] = "respond")
    /\ Succeeded(r) => trace[r] = StageOrder \o <<"cleanup", "respond">>

StagesInOrderWitness ==
  \E r \in Runs :
    /\ Succeeded(r)
    /\ trace[r] = StageOrder \o <<"cleanup", "respond">>
    /\ conv[r] = <<"document", "placeholder">>

(* ---------------------------- a failed upload -------------------------- *)
\* the last stage run r has started
LastStage(r) ==
  LET IsStage(x) == x \notin {"cleanup", "respond"}
      started == SelectSeq(trace[r], IsStage)
  IN  IF started = <<>> THEN "" ELSE started[Len(started)]

\* run r is in, or has ended through, the catch block
Failing(r) == pc[r] = "catch" \/ (Done(r) /\ response[r].code = 500)

\* C28: if the upload of the original fails the run ends with 500 after the
\* cleanup, and neither the conversion nor the preview upload executes; if
\* the upload of the preview fails the run ends with 500 and the generated
\* PDF, registered in tempFiles before the upload, is removed together
\* with the uploaded file.
FailedUploadCleansUp ==
  \A r \in Runs :
    /\ (pc[r] \in {"catch", "done"} /\ LastStage(r) = "upload-original") =>
         /\ Failing(r)
         /\ conv[r] = <<>> /\ ~Issued(r, "preview")
         /\ tempFiles[r] = <<UploadPath(r)>>
         /\ Done(r) => /\ "cleanup" \in Elems(trace[r])
                       /\ ~existsSync(disk, UploadPath(r))
    /\ (Failing(r) /\ LastStage(r) = "upload-preview") =>
         /\ Len(tempFiles[r]) = 2
         /\ tempFiles[r][1] = UploadPath(r)
         /\ tempFiles[r][2][1] = "/tmp/libreoffice"
         /\ Done(r) =>
              /\ "cleanup" \in Elems(trace[r])
              /\ ~existsSync(disk, UploadPath(r))
              /\ existsSync(disk, tempFiles[r][2]) => disk[tempFiles[r][2]][2] # r
              /\ \E q \in Runs : tempFiles[r][2] \in Elems(unlinked[q])

\* the preview upload of a run was refused after its original had been
\* stored; the run ended with 500 and unlinked both registered files
FailedUploadCleansUpWitness ==
  \E r \in Runs :
    /\ Done(r) /\ response[r].code = 500
    /\ LastStage(r) = "upload-preview"
    /\ ~startsWithConvert(req[r].previewUrl)
    /\ Len(tempFiles[r]) = 2 /\ unlinked[r] = tempFiles[r]
    /\ StoredAt(req[r].originalUrl) = {<<"upload", r>>}

(* ------------------------------ sink selection ------------------------- *)
\* '/convertx/a': not an absolute URL, and not under '/convert/'
NearMissOriginal == <<"", "convertx", "a">>
\* 'https://s3/convert/a': '/convert/' occurs, but not as the prefix
ConvertInsidePreview == <<"https:", "", "s3", "convert", "a">>

\* SpecSink: a clean document sent to local destinations, to presigned
\* URLs and to destinations that resemble the local prefix.
NextSink ==
  \/ \E r \in 1..NumRuns,
        o \in {LocalOriginalA, RemoteOriginal, NearMissOriginal},
        p \in {LocalPreviewB, RemotePreview, ConvertInsidePreview} :
        Receive(r, FileOf(TestTxt), o, p)
  \/ \E r \in 1..NumRuns : Validate(r)
  \/ \E r \in 1..NumRuns : Classify(r)
  \/ \E r \in 1..NumRuns : Scan(r, 0)
  \/ \E r \in 1..NumRuns : UploadOriginal(r)
  \/ \E r \in 1..NumRuns, outcome \in PutOutcomes : PutDone(r, outcome)
  \/ \E r \in 1..NumRuns, t \in TempNames : ConvertStart(r, t)
  \/ \E r \in 1..NumRuns : LibreDone(r, TRUE)
  \/ \E r \in 1..NumRuns : UploadPreview(r)
  \/ \E r \in 1..NumRuns : Finish(r)
  \/ \E r \in 1..NumRuns : Catch(r)

SpecSink == Init /\ [][NextSink]_vars

\* the destination string begins with '/convert/'
HasLocalPrefix(url) == Len(url) >= 3 /\ SubSeq(url, 1, 2) = <<"", "convert">>

\* the step is the call of handleFileUpload by run r for the stage
Uploads(r, stage) == trace'[r] = Append(trace[r], stage)

\* what a call of handleFileUpload(url, filePath, ...) by run r may change
SinkByPrefix(r, url, filePath) ==
  IF HasLocalPrefix(url)
  THEN /\ remote' = remote /\ putBody' = putBody
       /\ pc'[r] \notin {"put_original", "put_preview"}
       /\ pc'[r] # "catch" =>
            /\ pop(url) \in DOMAIN localFiles'
            /\ localFiles'[pop(url)].path = LocalPath(pop(url))
            /\ disk'[LocalPath(pop(url))] = disk[filePath]
  ELSE /\ localFiles' = localFiles /\ timers' = timers /\ disk' = disk
       /\ pc'[r] \in {"put_original", "put_preview", "catch"}
       /\ pc'[r] # "catch" => putBody'[r] = disk[filePath]

\* C29: sink selection is decided by the prefix of the destination alone:
\* handleFileUpload stores locally exactly when the destination starts
\* with '/convert/' and otherwise takes the remote PUT; a local destination
\* causes no network request, and a non-local destination, its PUT and the
\* answer to it never change the local store.
SinkChosenByPrefix ==
  [][\A r \in Runs :
       /\ Uploads(r, "upload-original") =>
            SinkByPrefix(r, req[r].originalUrl, UploadPath(r))
       /\ Uploads(r, "upload-preview") =>
            SinkByPrefix(r, req[r].previewUrl, pdfFile[r])
       /\ (pc[r] \in {"put_original", "put_preview"} /\ pc'[r] # pc[r]) =>
            /\ ~HasLocalPrefix(UrlInFlight(r))
            /\ localFiles' = localFiles /\ timers' = timers /\ disk' = disk]_vars

\* a run ended 200 with its original in the local store under key a and its
\* preview at a remote URL whose path contains '/convert/' and ends in a
SinkChosenByPrefixWitness ==
  \E r \in Runs :
    /\ Succeeded(r)
    /\ req[r].originalUrl = LocalOriginalA
    /\ req[r].previewUrl = ConvertInsidePreview
    /\ StoredAt(LocalOriginalA) = {<<"upload", r>>}
    /\ ConvertInsidePreview \in DOMAIN remote
    /\ remote[ConvertInsidePreview] = <<"pdf", r>>

(* ------------------------- retrieval of expired keys ------------------- *)
\* the key has an entry whose expiresAt has passed
Expired(k) == k \in DOMAIN localFiles /\ now > localFiles[k].expiresAt

\* the step removes entries without an upload and without a timer firing:
\* it is the eviction by a retrieval
ReadEvicts == localFiles' # localFiles /\ timers' = timers /\ writes' = writes

\* the step is the firing of a timer whose key has no entry
FiresForAbsentKey ==
  \E t \in timers : timers' = timers \ {t} /\ t.filename \notin DOMAIN localFiles

\* C30: retrieval answers 404 both for an absent key and for a key whose
\* expiresAt has passed; the read of an expired key evicts it, removing the
\* entry and the stored file and nothing else, and a firing of that key's
\* timer while the key is absent changes nothing.
ExpiredReadEvicts ==
  /\ [](\A k \in GetNames, type \in GetTypes :
          /\ (k \notin DOMAIN localFiles \/ Expired(k)) =>
                getFile(disk, localFiles, type, k, now).code = 404
          /\ k \in DOMAIN localFiles => existsSync(disk, localFiles[k].path))
  /\ [][/\ ReadEvicts =>
             \E k \in DOMAIN localFiles :
               /\ Expired(k)
               /\ DOMAIN localFiles' = (DOMAIN localFiles) \ {k}
               /\ DOMAIN disk' = (DOMAIN disk) \ {localFiles[k].path}
               /\ \A j \in DOMAIN localFiles' : localFiles'[j] = localFiles[j]
               /\ \A p \in DOMAIN disk' : disk'[p] = disk[p]
        /\ FiresForAbsentKey => disk' = disk /\ localFiles' = localFiles]_vars

\* key a was stored, has been evicted by a read after its expiry, and its
\* timer has not fired yet
ExpiredReadEvictsWitness ==
  /\ "a" \in DOMAIN inserted
  /\ now > inserted["a"] + TTL
  /\ "a" \notin DOMAIN localFiles
  /\ ~existsSync(disk, LocalPath("a"))
  /\ \E t \in timers : t.filename = "a" /\ now >= t.due

(* ------------------------- retrieval of live entries ------------------- *)
\* SpecRead: one request with a clean document for local destinations,
\* retrievals of both kinds and keys with their responses recorded, the
\* eviction timers and the clock.
NextRead ==
  \/ \E p \in {LocalPreviewA, LocalPreviewB} :
        Receive(1, FileOf(TestTxt), LocalOriginalA, p)
  \/ Validate(1)
  \/ Classify(1)
  \/ Scan(1, 0)
  \/ UploadOriginal(1)
  \/ \E t \in TempNames : ConvertStart(1, t)
  \/ LibreDone(1, TRUE)
  \/ UploadPreview(1)
  \/ Finish(1)
  \/ \E type \in GetTypes, filename \in GetNames : Serve(type, filename)
  \/ \E t \in timers : TimerFire(t)
  \/ Tick

SpecRead == Init /\ [][NextRead]_vars

\* the key has an entry that has not expired
Live(k) == k \in DOMAIN localFiles /\ ~(now > localFiles[k].expiresAt)

\* C31: no refresh-on-read: a retrieval of a live entry is answered 200 with
\* the stored file and leaves the local store unchanged, in particular the
\* entry's expiresAt and content type, its stored file and its pending timer.
NoRefreshOnRead ==
  [][\A type \in GetTypes, k \in GetNames :
       (Live(k) /\ Serve(type, k)) =>
          /\ served'.response.code = 200
          /\ served'.response.body = disk[localFiles[k].path]
          /\ localFiles' = localFiles /\ disk' = disk /\ timers' = timers]_vars

\* key a was served some time after its upload; its entry still expires TTL
\* after the upload and its timer is still pending
NoRefreshOnReadWitness ==
  /\ served.filename = "a" /\ served.response.code = 200
  /\ "a" \in DOMAIN localFiles /\ "a" \in DOMAIN inserted
  /\ now > inserted["a"]
  /\ localFiles["a"].expiresAt = inserted["a"] + TTL
  /\ \E t \in timers : t.filename = "a" /\ t.due = inserted["a"] + TTL

(* ------------------------------ copy, not move ------------------------- *)
\* the source file of a call of handleFileUpload is on disk, unchanged,
\* after the call
SourceKept(filePath) ==
  existsSync(disk', filePath) /\ disk'[filePath] = disk[filePath]

\* the step keeps every stored copy and every entry of the local store
StoreKept ==
  /\ localFiles' = localFiles
  /\ \A p \in DOMAIN disk :
       IsStorePath(p) => existsSync(disk', p) /\ disk'[p] = disk[p]

\* C32: a local-sink upload copies and does not move: when handleFileUpload
\* has returned, the source temp file still exists unchanged, and the
\* temp-file cleanup with which a run ends neither removes nor changes a
\* stored copy.
LocalUploadCopies ==
  [][\A r \in Runs :
       /\ (Uploads(r, "upload-original") /\ HasLocalPrefix(req[r].originalUrl)
             /\ pc'[r] # "catch") => SourceKept(UploadPath(r))
       /\ (Uploads(r, "upload-preview") /\ HasLocalPrefix(req[r].previewUrl)
             /\ pc'[r] # "catch") => SourceKept(pdfFile[r])
       /\ (pc[r] # "done" /\ pc'[r] = "done") => StoreKept]_vars

\* a run stored its original locally, converted the uploaded file
\* afterwards, and has ended: the stored copy outlives the unlinked source
LocalUploadCopiesWitness ==
  \E r \in Runs :
    /\ Succeeded(r) /\ HasLocalPrefix(req[r].originalUrl)
    /\ conv[r] = <<"document">>
    /\ UploadPath(r) \in Elems(unlinked[r])
    /\ existsSync(disk, LocalPath(pop(req[r].originalUrl)))
    /\ disk[LocalPath(pop(req[r].originalUrl))] = <<"upload", r>>

(* --------------------------- store consistency ------------------------- *)
\* the keys whose stored file is on disk
StoredKeys == {p[2] : p \in {q \in DOMAIN disk : IsStorePath(q)}}

\* C33: concurrent inserts, reads and evictions never corrupt the local
\* store: in every reachable state a key is in the localFiles map exactly
\* when its stored file is on disk, and the path of its entry is the file
\* of that key.
StoreConsistent ==
  /\ DOMAIN localFiles = StoredKeys
  /\ \A k \in DOMAIN localFiles : localFiles[k].path = LocalPath(k)

\* key a was stored, evicted after its expiry and stored again while the
\* timer of the first upload is still pending
StoreConsistentWitness ==
  /\ UploadsTo("a") = 2
  /\ "a" \in DOMAIN localFiles
  /\ existsSync(disk, LocalPath("a"))
  /\ \E t \in timers : t.filename = "a" /\ t.due < localFiles["a"].expiresAt
  /\ now > TTL

(* ------------------------ the category of a run ------------------------ *)
\* how often run r has derived the category from the filename: at its
\* classification step and at every entry of convertFileToPDF
Derivations(r) ==
  Occurrences(trace[r], "classify")
    + Cardinality({i \in DOMAIN conv[r] : conv[r][i] \in Categories})

ConverterNeverSeesBlocked ==
  \A r \in Runs :
    /\ \A i \in DOMAIN conv[r] : conv[r][i] # "blocked"
    /\ (req[r].file.present
          /\ getFileCategory(req[r].file.originalname) = "blocked") =>
         /\ conv[r] = <<>>
         /\ pc[r] \in {"idle", "received", "classify", "done"}
         /\ "convert" \notin Elems(trace[r])
         /\ (Done(r) /\ trace[r] # <<"respond">>) => response[r].code = 400

\* a request with blocked.exe has ended at classification; nothing was
\* converted
ConverterNeverSeesBlockedWitness ==
  \E r \in Runs :
    /\ Done(r) /\ req[r].file.originalname = BlockedExe
    /\ fileCategory[r] = "blocked" /\ response[r].code = 400
    /\ conv[r] = <<>> /\ trace[r] = <<"classify", "cleanup", "respond">>

(* --------------------------- ownership of temp paths ------------------- *)
\* run r has been received and has not ended
Active(r) == pc[r] \notin {"idle", "done"}

\* the PDF path generated for run r, while it has one
GeneratedPdf(r) ==
  IF destination[r] # NoPath THEN {destination[r]}
  ELSE IF pdfFile[r] # NoPath THEN {pdfFile[r]} ELSE {}

\* C36, as claimed: temp paths are exclusively owned by one run: for any two
\* concurrently active runs the PDF path generated for one is never the
\* path generated for the other.
TempPathsExclusive ==
  \A r \in Runs, q \in Runs :
    (r # q /\ Active(r) /\ Active(q)) => GeneratedPdf(r) \cap GeneratedPdf(q) = {}

(* --------------------------------- the API key ------------------------- *)
\* SpecAuth: a server started with or without ATTACHMENTS_CONVERT_API_KEY;
\* requests with the key, with another key and with none; the scan passes
\* or fails, the sinks accept or refuse.
InitAuth ==
  /\ now = 0
  /\ loop = 0
  /\ pc = [r \in Runs |-> "idle"]
  /\ req = [r \in Runs |-> NoRequest]
  /\ tempFiles = [r \in Runs |-> <<>>]
  /\ scanResult = [r \in Runs |-> NoScan]
  /\ fileCategory = [r \in Runs |-> ""]
  /\ destination = [r \in Runs |-> NoPath]
  /\ pdfFile = [r \in Runs |-> NoPath]
  /\ putBody = [r \in Runs |-> NoContent]
  /\ response = [r \in Runs |-> NoResponse]
  /\ disk = EmptyMap
  /\ localFiles = EmptyMap
  /\ timers = {}
  /\ remote = EmptyMap
  /\ scanExits = [r \in Runs |-> <<>>]
  /\ trace = [r \in Runs |-> <<>>]
  /\ writes = {}
  /\ unlinked = [r \in Runs |-> <<>>]
  /\ inserted = EmptyMap
  /\ conv = [r \in Runs |-> <<>>]
  /\ served = NoRetrieval
  /\ API_KEY \in {NoKey, "secret"}

AuthFiles == {FileOf(TestTxt), FileOf(BlockedExe)}
AuthOriginals == {LocalOriginalA, RemoteOriginal}
AuthPreviews == {LocalPreviewB, RemotePreview}

NextAuth ==
  \/ \E r \in 1..NumRuns, key \in ProvidedKeys : Deny(r, key)
  \/ \E r \in 1..NumRuns, key \in ProvidedKeys, file \in AuthFiles,
        o \in AuthOriginals, p \in AuthPreviews :
        Admit(r, key, file, o, p)
  \/ \E r \in 1..NumRuns : Validate(r)
  \/ \E r \in 1..NumRuns : Classify(r)
  \/ \E r \in 1..NumRuns, exit \in {0, 2} : Scan(r, exit)
  \/ \E r \in 1..NumRuns : UploadOriginal(r)
  \/ \E r \in 1..NumRuns, outcome \in PutOutcomes : PutDone(r, outcome)
  \/ \E r \in 1..NumRuns, t \in TempNames : ConvertStart(r, t)
  \/ \E r \in 1..NumRuns, ok \in BOOLEAN : LibreDone(r, ok)
  \/ \E r \in 1..NumRuns, t \in TempNames : PlaceholderStart(r, t)
  \/ \E r \in 1..NumRuns, ok \in BOOLEAN : PlaceholderDone(r, ok)
  \/ \E r \in 1..NumRuns : UploadPreview(r)
  \/ \E r \in 1..NumRuns : Finish(r)
  \/ \E r \in 1..NumRuns : Catch(r)

SpecAuth == InitAuth /\ [][NextAuth]_vars

\* the request of run r was answered by the middleware
Denied(r) ==
  /\ Done(r)
  /\ response[r].message \in {"Service configuration error",
                              "Unauthorized - Invalid or missing API key"}

\* nothing was created or executed for run r
NothingRanFor(r) ==
  /\ ~existsSync(disk, UploadPath(r))
  /\ tempFiles[r] = <<>> /\ req[r] = NoRequest
  /\ trace[r] = <<"respond">>
  /\ scanExits[r] = <<>> /\ conv[r] = <<>> /\ fileCategory[r] = ""
  /\ NoWrites(r) /\ NothingStoredOf(r)

\* C39: a POST /convert request without the configured API key (a missing
\* or different key, or no key configured on the server) is answered 401
\* (500 when unconfigured) before the file payload is accepted: no temp
\* file is created and no classification, scan, upload or conversion
\* executes for it.
ApiKeyRequired ==
  /\ [](\A r \in Runs :
          /\ Denied(r) => NothingRanFor(r)
          /\ (Done(r) /\ API_KEY = NoKey) =>
                response[r].code = 500 /\ Denied(r)
          /\ pc[r] \notin {"idle", "done"} => API_KEY # NoKey)
  /\ [][\A r \in Runs, key \in ProvidedKeys :
          /\ (key # API_KEY \/ API_KEY = NoKey) =>
                ~(\E file \in AuthFiles, o \in AuthOriginals, p \in AuthPreviews :
                     Admit(r, key, file, o, p))
          /\ Deny(r, key) =>
                /\ key # API_KEY \/ API_KEY = NoKey
                /\ response'[r].code = IF API_KEY = NoKey THEN 500 ELSE 401
                /\ disk' = disk]_vars

\* with the key configured, a request with another key was answered 401 and
\* left nothing behind
ApiKeyRequiredWitness ==
  \E r \in Runs :
    /\ API_KEY = "secret" /\ Denied(r) /\ response[r].code = 401
    /\ NothingRanFor(r)

(* ------------------------- what a 500 says of the scan ----------------- *)
\* what the claim requires of the 500 response of run r
ReportsScan(r) ==
  /\ "scanResult" \in DOMAIN response[r]
  /\ response[r].scanResult \in {"not_scanned", "clean"}
  /\ response[r].scanResult = "not_scanned" <=> ~scanResult[r].set
  /\ response[r].scanResult = "clean" <=> ScannedClean(r)

OriginalKey(r) == pop(req[r].originalUrl)

\* run r has stored its original locally and nothing else has been written
\* to that destination, by r or by any other run
OnlyOriginalStored(r) ==
  /\ Issued(r, "original")
  /\ ~Issued(r, "preview")
  /\ HasLocalPrefix(req[r].originalUrl)
  /\ SoleWriter(r, req[r].originalUrl)
  /\ Live(OriginalKey(r))

\* C38, as claimed: retrieval kinds are isolated: an artifact uploaded to a
\* destination under /convert/original/ is retrievable only with kind
\* original, never with kind preview.
KindsIsolated ==
  \A r \in Runs :
    OnlyOriginalStored(r) =>
      getFile(disk, localFiles, "preview", OriginalKey(r), now).code # 200

(* ------------------------- what the converter leaves ------------------- *)
\* the paths convertFileToPDF of run r has created and that are still on
\* disk: the converter is the only writer of "partial", "pdf" and
\* "placeholder" contents under the conversion directory
CreatedByConverter(r) ==
  {p \in DOMAIN disk :
     /\ disk[p][2] = r
     /\ disk[p][1] \in {"partial", "pdf", "placeholder"}
     /\ \E n \in TempNames : p = PdfPath(n)}

\* C40, as claimed: convertFileToPDF leaves no stray file: when it returns,
\* every file it created on disk during the call is the returned path, also
\* when the image or document conversion fails midway and the placeholder
\* fallback is returned instead.
NoStrayFile ==
  \A r \in Runs :
    pc[r] = "upload_preview" => CreatedByConverter(r) \subseteq {pdfFile[r]}
====
